---- MODULE Spec2Model ----
(***************************************************************************)
(* Model of the recruitment assistant: the candidate scoring, ranking and   *)
(* filtering engine (src/src/agents/filter_ai.py, specification Spec), the *)
(* JSON store (store_keeper.py and helpers.py, StoreSpec and RaceSpec),    *)
(* the pages of app.py over the store (AppSpec, CollectSpec for Resume     *)
(* Collection, HRSpec for the HR Interface), the resume tools              *)
(* (resume_parser.py and resume_bot.py, ResumeSpec, and ExtractSpec for    *)
(* the extractors of experience and education) and the scheduler           *)
(* (scheduler.py and time_bot.py, ScheduleSpec).                           *)
(*                                                                         *)
(* Python strings are sequences of one-character strings, so that lower(), *)
(* the substring test `in` and the regular expression of _extract_years    *)
(* are computed character by character.  An optional value (a dict entry   *)
(* that may hold None) is a record [none, val].  Python floats are exact   *)
(* rationals [num, den] in lowest terms: every score the engine computes   *)
(* is a small rational, and on them IEEE double arithmetic gives the same  *)
(* comparisons and the same round(x, 2) as exact arithmetic.               *)
(***************************************************************************)
EXTENDS Integers, Sequences, FiniteSets, TLC

----------------------------------------------------------------------------
(* Bounds of the model.                                                    *)

\* Longest candidate list handed to rank_candidates / filter_candidates.
MaxCandidates == 3

----------------------------------------------------------------------------
(* Optional values: dict.get(key, default) may return None.                *)

None == [none |-> TRUE, val |-> <<>>]

Some(v) == [none |-> FALSE, val |-> v]

\* Python truthiness of an optional string or list: None, "" and [] are falsy.
Truthy(o) == ~o.none /\ o.val # <<>>

----------------------------------------------------------------------------
(* Strings.                                                                *)

UpperChars == <<"A", "B", "C", "D", "E", "F", "G", "H", "I", "J", "K", "L", "M",
                "N", "O", "P", "Q", "R", "S", "T", "U", "V", "W", "X", "Y", "Z">>

LowerChars == <<"a", "b", "c", "d", "e", "f", "g", "h", "i", "j", "k", "l", "m",
                "n", "o", "p", "q", "r", "s", "t", "u", "v", "w", "x", "y", "z">>

DigitChars == <<"0", "1", "2", "3", "4", "5", "6", "7", "8", "9">>

WhiteChars == {" ", "\t", "\n"}

\* The lowercase of each uppercase letter.
ToLower ==
    [c \in {UpperChars[i] : i \in 1..26} |-> LowerChars[CHOOSE i \in 1..26 : UpperChars[i] = c]]

LowerChar(c) == IF c \in DOMAIN ToLower THEN ToLower[c] ELSE c

\* str.lower()
Lower(s) == [i \in 1..Len(s) |-> LowerChar(s[i])]

\* needle in hay
Contains(hay, needle) ==
    \E i \in 0..(Len(hay) - Len(needle)) : SubSeq(hay, i + 1, i + Len(needle)) = needle

\* The value of each decimal digit.
DigitValue == [c \in {DigitChars[i] : i \in 1..10} |-> (CHOOSE i \in 1..10 : DigitChars[i] = c) - 1]

IsDigit(c) == c \in DOMAIN DigitValue

DigitVal(c) == DigitValue[c]

RECURSIVE ParseInt(_)
\* int(s) for a non-empty string of decimal digits
ParseInt(s) ==
    IF s = <<>> THEN 0
    ELSE 10 * ParseInt(SubSeq(s, 1, Len(s) - 1)) + DigitVal(s[Len(s)])

----------------------------------------------------------------------------
(* Numbers: floats as exact rationals in lowest terms.                     *)

RECURSIVE Gcd(_, _)
Gcd(a, b) == IF b = 0 THEN a ELSE Gcd(b, a % b)

Abs(n) == IF n < 0 THEN -n ELSE n

Rat(n, d) ==
    LET g == Gcd(Abs(n), d)
    IN  [num |-> n \div g, den |-> d \div g]

FromInt(n) == [num |-> n, den |-> 1]

RAdd(a, b) == Rat(a.num * b.den + b.num * a.den, a.den * b.den)

RMul(a, b) == Rat(a.num * b.num, a.den * b.den)

RGe(a, b) == a.num * b.den >= b.num * a.den

RLt(a, b) == a.num * b.den < b.num * a.den

RMin(a, b) == IF RLt(b, a) THEN b ELSE a

\* round(x, 2) for x >= 0: the nearest hundredth, an exact tie going to the even one
Round2(x) ==
    LET y == x.num * 100
        q == y \div x.den
        r == y % x.den
    IN  IF 2 * r > x.den \/ (2 * r = x.den /\ q % 2 = 1)
        THEN Rat(q + 1, 100)
        ELSE Rat(q, 100)

----------------------------------------------------------------------------
(* FilterAI: the scoring helpers.                                          *)

YearWord == <<"y", "e", "a", "r">>

\* The digit counts d for which (\d+)\s*years? matches text t at position i:
\* d digits, then any run of whitespace, then "year" (the "s" is optional).
YearMatchLens(t, i) ==
    { d \in 1..(Len(t) - i + 1) :
        /\ \A k \in i..(i + d - 1) : IsDigit(t[k])
        /\ \E w \in 0..(Len(t) - i - d + 1) :
              /\ \A k \in (i + d)..(i + d + w - 1) : t[k] \in WhiteChars
              /\ i + d + w + 3 <= Len(t)
              /\ SubSeq(t, i + d + w, i + d + w + 3) = YearWord }

Max(S) == CHOOSE x \in S : \A y \in S : y <= x

Min(S) == CHOOSE x \in S : \A y \in S : x <= y

\* _extract_years: 0 for None or "", else the number of the leftmost match of
\* (\d+)\s*years? in text.lower() (the group is greedy), 0 without a match.
_extract_years(text) ==
    IF ~Truthy(text) THEN 0
    ELSE LET t == Lower(text.val)
             starts == { i \in 1..Len(t) : YearMatchLens(t, i) # {} }
         IN  IF starts = {} THEN 0
             ELSE LET i == Min(starts)
                      d == Max(YearMatchLens(t, i))
                  IN  ParseInt(SubSeq(t, i, i + d - 1))

\* No required skills scored 0 instead of the neutral 50.
SkillMatchEmptyZero(candidate_skills, required_skills) ==
    LET candidate_skills_lower == { Lower(candidate_skills[j]) : j \in DOMAIN candidate_skills }
        matches == Cardinality({ i \in DOMAIN required_skills :
                                   Lower(required_skills[i]) \in candidate_skills_lower })
    IN  IF required_skills = <<>> THEN FromInt(0)
        ELSE RMul(Rat(matches, Len(required_skills)), FromInt(100))

\* Skills compared without lower().
SkillMatchCaseSensitive(candidate_skills, required_skills) ==
    IF required_skills = <<>> THEN FromInt(50)
    ELSE LET matches == Cardinality({ i \in DOMAIN required_skills :
                                        \E j \in DOMAIN candidate_skills :
                                            candidate_skills[j] = required_skills[i] })
         IN  RMul(Rat(matches, Len(required_skills)), FromInt(100))

\* _calculate_skill_match on lists: 50 for no required skills, else the share
\* of required skills (each list entry counts) found in the candidate's skills.
_calculate_skill_match(candidate_skills, required_skills) ==
    IF required_skills = <<>> THEN FromInt(50)
    ELSE LET candidate_skills_lower == { Lower(candidate_skills[j]) : j \in DOMAIN candidate_skills }
             matches == Cardinality({ i \in DOMAIN required_skills :
                                        Lower(required_skills[i]) \in candidate_skills_lower })
         IN  RMul(Rat(matches, Len(required_skills)), FromInt(100))

\* The top band taken as exclusive (> instead of >=).
ExperienceMatchExclusive(candidate_exp, required_exp) ==
    IF required_exp = <<>> THEN FromInt(50)
    ELSE LET candidate_years == FromInt(_extract_years(candidate_exp))
             required_years  == FromInt(_extract_years(Some(required_exp)))
         IN  IF RLt(required_years, candidate_years) THEN FromInt(100)
             ELSE IF RGe(candidate_years, RMul(required_years, Rat(8, 10))) THEN FromInt(80)
             ELSE IF RGe(candidate_years, RMul(required_years, Rat(6, 10))) THEN FromInt(60)
             ELSE FromInt(30)

\* Without the early return for an empty required_exp.
ExperienceMatchNoNeutral(candidate_exp, required_exp) ==
    LET candidate_years == FromInt(_extract_years(candidate_exp))
        required_years  == FromInt(_extract_years(Some(required_exp)))
    IN  IF RGe(candidate_years, required_years) THEN FromInt(100)
        ELSE IF RGe(candidate_years, RMul(required_years, Rat(8, 10))) THEN FromInt(80)
        ELSE IF RGe(candidate_years, RMul(required_years, Rat(6, 10))) THEN FromInt(60)
        ELSE FromInt(30)

\* A level stating no year count taken as neutral, like an empty one.
ExperienceMatchLabelNeutral(candidate_exp, required_exp) ==
    IF required_exp = <<>> \/ _extract_years(Some(required_exp)) = 0 THEN FromInt(50)
    ELSE LET candidate_years == FromInt(_extract_years(candidate_exp))
             required_years  == FromInt(_extract_years(Some(required_exp)))
         IN  IF RGe(candidate_years, required_years) THEN FromInt(100)
             ELSE IF RGe(candidate_years, RMul(required_years, Rat(8, 10))) THEN FromInt(80)
             ELSE IF RGe(candidate_years, RMul(required_years, Rat(6, 10))) THEN FromInt(60)
             ELSE FromInt(30)

\* _calculate_experience_match: required_exp is the job's experience_level.
_calculate_experience_match(candidate_exp, required_exp) ==
    IF required_exp = <<>> THEN FromInt(50)
    ELSE LET candidate_years == FromInt(_extract_years(candidate_exp))
             required_years  == FromInt(_extract_years(Some(required_exp)))
         IN  IF RGe(candidate_years, required_years) THEN FromInt(100)
             ELSE IF RGe(candidate_years, RMul(required_years, Rat(8, 10))) THEN FromInt(80)
             ELSE IF RGe(candidate_years, RMul(required_years, Rat(6, 10))) THEN FromInt(60)
             ELSE FromInt(30)

edu_keywords ==
    << <<"b", "a", "c", "h", "e", "l", "o", "r">>,
       <<"m", "a", "s", "t", "e", "r">>,
       <<"p", "h", "d">>,
       <<"d", "e", "g", "r", "e", "e">>,
       <<"u", "n", "i", "v", "e", "r", "s", "i", "t", "y">>,
       <<"c", "o", "l", "l", "e", "g", "e">> >>

\* The score returned without the cap min(education_score, 100.0).
EducationMatchUncapped(candidate_edu, requirements) ==
    IF requirements = <<>> THEN FromInt(50)
    ELSE LET candidate_edu_lower == IF Truthy(candidate_edu) THEN Lower(candidate_edu.val) ELSE <<>>
         IN  FromInt(20 * Cardinality({ k \in DOMAIN edu_keywords :
                                          Contains(candidate_edu_lower, edu_keywords[k]) }))

\* _calculate_education_match: 50 for an empty requirements list, else 20 per
\* keyword occurring in the lowercased education text (None counts as ""),
\* at most 100.
_calculate_education_match(candidate_edu, requirements) ==
    IF requirements = <<>> THEN FromInt(50)
    ELSE LET candidate_edu_lower == IF Truthy(candidate_edu) THEN Lower(candidate_edu.val) ELSE <<>>
             education_score == 20 * Cardinality({ k \in DOMAIN edu_keywords :
                                                     Contains(candidate_edu_lower, edu_keywords[k]) })
         IN  RMin(FromInt(education_score), FromInt(100))

\* The thresholds taken as exclusive (> instead of >=).
RankingCategoryExclusive(score) ==
    IF RLt(FromInt(80), score) THEN "Excellent"
    ELSE IF RLt(FromInt(60), score) THEN "Good"
    ELSE IF RLt(FromInt(40), score) THEN "Average"
    ELSE "Below Average"

\* _get_ranking_category
_get_ranking_category(score) ==
    IF RGe(score, FromInt(80)) THEN "Excellent"
    ELSE IF RGe(score, FromInt(60)) THEN "Good"
    ELSE IF RGe(score, FromInt(40)) THEN "Average"
    ELSE "Below Average"

\* _generate_recommendations (the candidate and the job are not read)
_generate_recommendations(score) ==
    IF RGe(score, FromInt(80))
    THEN <<"Highly recommended for interview", "Strong match for the position">>
    ELSE IF RGe(score, FromInt(60))
    THEN <<"Good candidate worth considering", "May need some additional evaluation">>
    ELSE IF RGe(score, FromInt(40))
    THEN <<"Average candidate", "Consider for backup positions">>
    ELSE <<"Below requirements", "May not be suitable for this role">>

\* The sub-scores added up without their weights.
OverallScoreUnweighted(skill_score, exp_score, edu_score) ==
    RAdd(RAdd(RAdd(skill_score, exp_score), edu_score), RMul(FromInt(10), Rat(1, 10)))

\* The baseline term taken as 10 instead of 10 * 0.1.
OverallScoreBaselineTen(skill_score, exp_score, edu_score) ==
    RAdd(RAdd(RAdd(RMul(skill_score, Rat(4, 10)),
                   RMul(exp_score, Rat(3, 10))),
              RMul(edu_score, Rat(2, 10))),
         FromInt(10))

\* (skill_score * 0.4) + (exp_score * 0.3) + (edu_score * 0.2) + (10 * 0.1)
OverallScore(skill_score, exp_score, edu_score) ==
    RAdd(RAdd(RAdd(RMul(skill_score, Rat(4, 10)),
                   RMul(exp_score, Rat(3, 10))),
              RMul(edu_score, Rat(2, 10))),
         RMul(FromInt(10), Rat(1, 10)))

----------------------------------------------------------------------------
(* FilterAI: analyze_candidate and rank_candidates.                        *)

\* What makes the body of analyze_candidate raise: iterating the skills of a
\* candidate whose skills entry is None, which _calculate_skill_match does
\* only after its early return for an empty required list.
AnalyzeRaises(candidate, job) ==
    job.skills_required # <<>> /\ candidate.skills.none

AnalysisError == [error |-> TRUE]

\* analyze_candidate: the analysis dict, or the error dict of its except branch.
analyze_candidate(candidate, job) ==
    IF AnalyzeRaises(candidate, job) THEN AnalysisError
    ELSE LET skill_score == _calculate_skill_match(candidate.skills.val, job.skills_required)
             exp_score   == _calculate_experience_match(candidate.experience, job.experience_level)
             edu_score   == _calculate_education_match(candidate.education, job.requirements)
             overall_score == OverallScore(skill_score, exp_score, edu_score)
         IN  [ error                  |-> FALSE,
               candidate_id           |-> candidate.id,
               job_id                 |-> job.id,
               skill_match_score      |-> skill_score,
               experience_match_score |-> exp_score,
               education_match_score  |-> edu_score,
               overall_score          |-> Round2(overall_score),
               ranking                |-> _get_ranking_category(overall_score),
               recommendations        |-> _generate_recommendations(overall_score) ]

\* A sort that is not stable: x goes in front of the elements it ties with.
SortInsertTiesFirst(sorted, x) ==
    LET before == { k \in DOMAIN sorted : ~RGe(x.overall_score, sorted[k].overall_score) }
        n == Cardinality(before)
    IN  SubSeq(sorted, 1, n) \o <<x>> \o SubSeq(sorted, n + 1, Len(sorted))

\* One step of list.sort(key=overall_score, reverse=True), which is stable:
\* x goes behind every element that does not score lower than x.
SortInsert(sorted, x) ==
    LET before == { k \in DOMAIN sorted : RGe(sorted[k].overall_score, x.overall_score) }
        n == Cardinality(before)
    IN  SubSeq(sorted, 1, n) \o <<x>> \o SubSeq(sorted, n + 1, Len(sorted))

RECURSIVE SortDescending(_)
SortDescending(list) ==
    IF list = <<>> THEN <<>>
    ELSE SortInsert(SortDescending(SubSeq(list, 1, Len(list) - 1)), list[Len(list)])

\* The loop giving up on the whole batch when one analysis fails.
AnalyzeAllOrNone(candidates, job) ==
    IF \E i \in DOMAIN candidates : analyze_candidate(candidates[i], job).error
    THEN <<>>
    ELSE [ i \in DOMAIN candidates |->
             analyze_candidate(candidates[i], job) @@ [candidate_data |-> candidates[i]] ]

RECURSIVE AnalyzeAll(_, _)
\* The loop of rank_candidates: analyses without 'error', each with its
\* candidate attached as candidate_data, in input order.
AnalyzeAll(candidates, job) ==
    IF candidates = <<>> THEN <<>>
    ELSE LET rest      == AnalyzeAll(SubSeq(candidates, 1, Len(candidates) - 1), job)
             candidate == candidates[Len(candidates)]
             analysis  == analyze_candidate(candidate, job)
         IN  IF analysis.error THEN rest
             ELSE Append(rest, analysis @@ [candidate_data |-> candidate])

\* rank_candidates
rank_candidates(candidates, job) == SortDescending(AnalyzeAll(candidates, job))

----------------------------------------------------------------------------
(* FilterAI: filter_candidates.                                            *)

AnyLevel == <<"A", "n", "y">>

\* The comparison taken as <= instead of <.
FailsExperienceInclusive(candidate, filter_criteria) ==
    _extract_years(candidate.experience) <= filter_criteria.min_experience

\* if candidate_years < min_experience: continue
FailsExperience(candidate, filter_criteria) ==
    _extract_years(candidate.experience) < filter_criteria.min_experience

\* Iterating candidate.get('skills', []) raises when the entry is None.
SkillsCheckRaises(candidate, filter_criteria) ==
    filter_criteria.required_skills # <<>> /\ candidate.skills.none

\* if required_skills and not all(...): continue
FailsSkills(candidate, filter_criteria) ==
    LET required_skills  == filter_criteria.required_skills
        candidate_skills == { Lower(candidate.skills.val[j]) : j \in DOMAIN candidate.skills.val }
    IN  /\ required_skills # <<>>
        /\ ~ \A i \in DOMAIN required_skills : Lower(required_skills[i]) \in candidate_skills

\* candidate.get('education', '').lower() raises AttributeError when the
\* entry holds None: the default '' is used only when the key is missing.
EducationCheckRaises(candidate, filter_criteria) ==
    filter_criteria.education_level # AnyLevel /\ candidate.education.none

\* if education_level != 'Any' and education_level.lower() not in candidate_edu: continue
FailsEducation(candidate, filter_criteria) ==
    /\ filter_criteria.education_level # AnyLevel
    /\ ~Contains(Lower(candidate.education.val), Lower(filter_criteria.education_level))

\* if score < score_threshold: continue
FailsScore(score, filter_criteria) ==
    RLt(score, FromInt(filter_criteria.score_threshold))

\* candidate.copy() updated with match_score, ranking and recommendations
FilteredCandidate(candidate_analysis) ==
    candidate_analysis.candidate_data @@
        [ match_score     |-> candidate_analysis.overall_score,
          ranking         |-> candidate_analysis.ranking,
          recommendations |-> candidate_analysis.recommendations ]

RECURSIVE FilterLoop(_, _, _, _)
\* The for loop over ranked_candidates from position k on, filtered so far
\* being the list built up to there: [raised, filtered].  The checks run in the
\* order of the code, so a check raises only for a candidate that passed the
\* checks before it.
FilterLoop(ranked_candidates, filter_criteria, k, filtered) ==
    IF k > Len(ranked_candidates) THEN [raised |-> FALSE, filtered |-> filtered]
    ELSE LET candidate_analysis == ranked_candidates[k]
             candidate == candidate_analysis.candidate_data
             skip == FilterLoop(ranked_candidates, filter_criteria, k + 1, filtered)
         IN  IF candidate_analysis.error THEN skip
             ELSE IF FailsExperience(candidate, filter_criteria) THEN skip
             ELSE IF SkillsCheckRaises(candidate, filter_criteria)
                  THEN [raised |-> TRUE, filtered |-> filtered]
             ELSE IF FailsSkills(candidate, filter_criteria) THEN skip
             ELSE IF EducationCheckRaises(candidate, filter_criteria)
                  THEN [raised |-> TRUE, filtered |-> filtered]
             ELSE IF FailsEducation(candidate, filter_criteria) THEN skip
             ELSE IF FailsScore(candidate_analysis.overall_score, filter_criteria) THEN skip
             ELSE FilterLoop(ranked_candidates, filter_criteria, k + 1,
                             Append(filtered, FilteredCandidate(candidate_analysis)))

\* filter_candidates: the result dict (filter_criteria, which it echoes, is
\* left out); the except branch reports success False with an empty list (its
\* message is left out).
filter_candidates(candidates, job, filter_criteria) ==
    LET ranked_candidates == rank_candidates(candidates, job)
        loop == FilterLoop(ranked_candidates, filter_criteria, 1, <<>>)
    IN  IF loop.raised
        THEN [ success             |-> FALSE,
               filtered_candidates |-> <<>> ]
        ELSE [ success             |-> TRUE,
               filtered_candidates |-> loop.filtered,
               total_candidates    |-> Len(candidates),
               filtered_count      |-> Len(loop.filtered) ]

\* A filter loop without candidate.copy(): the update goes to the dict of the
\* caller's list.
CandidateUpdatedInPlace(candidate_analysis) == FilteredCandidate(candidate_analysis)

\* The candidate dict of the caller's list after
\* `filtered_candidate = candidate.copy()` and filtered_candidate.update(...):
\* the update goes to the copy.
CandidateAfterUpdate(candidate_analysis) == candidate_analysis.candidate_data

\* The caller's list after rank_candidates: the loop only reads it, and
\* sort() is called on analyzed_candidates, a list of its own.
CandidatesAfterRank(candidates, job) == candidates

\* A candidate the filter loop does not skip: its analysis has no error and
\* none of the four checks fails or raises.
PassesChecks(candidate_analysis, filter_criteria) ==
    /\ ~candidate_analysis.error
    /\ ~FailsExperience(candidate_analysis.candidate_data, filter_criteria)
    /\ ~SkillsCheckRaises(candidate_analysis.candidate_data, filter_criteria)
    /\ ~FailsSkills(candidate_analysis.candidate_data, filter_criteria)
    /\ ~EducationCheckRaises(candidate_analysis.candidate_data, filter_criteria)
    /\ ~FailsEducation(candidate_analysis.candidate_data, filter_criteria)
    /\ ~FailsScore(candidate_analysis.overall_score, filter_criteria)

\* The caller's list after filter_candidates: the loop only reads the dicts it
\* skips, and a dict it does not skip is copied and the copy updated.
CandidatesAfterFilter(candidates, job, filter_criteria) ==
    [ i \in DOMAIN candidates |->
        LET candidate_analysis ==
                analyze_candidate(candidates[i], job) @@ [candidate_data |-> candidates[i]]
        IN  IF PassesChecks(candidate_analysis, filter_criteria)
            THEN CandidateAfterUpdate(candidate_analysis)
            ELSE candidates[i] ]

----------------------------------------------------------------------------
(* Inputs: candidate dicts, job dicts and filter criteria.                 *)

Python == <<"P", "y", "t", "h", "o", "n">>
python == <<"p", "y", "t", "h", "o", "n">>
SQL    == <<"S", "Q", "L">>
sql    == <<"s", "q", "l">>
react  == <<"r", "e", "a", "c", "t">>

FiveYearsOfExperience ==
    <<"5", " ", "y", "e", "a", "r", "s", " ", "o", "f", " ",
      "e", "x", "p", "e", "r", "i", "e", "n", "c", "e">>
EightYears   == <<"8", " ", "y", "e", "a", "r", "s">>
SevenYears   == <<"7", "y", "e", "a", "r">>
TenYears     == <<"1", "0", " ", "Y", "e", "a", "r", "s">>
ThreePlus    == <<"3", "+", " ", "y", "e", "a", "r", "s">>
Senior       == <<"S", "e", "n", "i", "o", "r">>

BachelorsDegree ==
    <<"B", "a", "c", "h", "e", "l", "o", "r", "'", "s", " ", "d", "e", "g", "r", "e", "e">>
\* An education text holding all six keywords.
PhdUniversity ==
    <<"P", "h", "D", ",", " ", "M", "a", "s", "t", "e", "r", "'", "s", " ",
      "d", "e", "g", "r", "e", "e", ",", " ", "B", "a", "c", "h", "e", "l", "o", "r", ",", " ",
      "U", "n", "i", "v", "e", "r", "s", "i", "t", "y", " ",
      "C", "o", "l", "l", "e", "g", "e">>
HighSchool == <<"H", "i", "g", "h", " ", "S", "c", "h", "o", "o", "l">>
Bachelors  == <<"B", "a", "c", "h", "e", "l", "o", "r", "'", "s">>
Masters    == <<"M", "a", "s", "t", "e", "r", "'", "s">>

\* Candidate dicts without their id: Candidate.to_dict() holds a list under
\* skills and a string or None under experience and education; a dict read
\* from elsewhere can hold None under skills too.
Profiles ==
    { [skills |-> Some(<<python, sql>>), experience |-> Some(FiveYearsOfExperience),
       education |-> Some(BachelorsDegree)],
      [skills |-> Some(<<Python, SQL, react>>), experience |-> Some(TenYears),
       education |-> Some(PhdUniversity)],
      [skills |-> Some(<<>>), experience |-> None, education |-> None],
      [skills |-> Some(<<Python>>), experience |-> Some(ThreePlus),
       education |-> Some(HighSchool)],
      [skills |-> Some(<<SQL, python>>), experience |-> Some(SevenYears),
       education |-> None],
      [skills |-> None, experience |-> Some(EightYears),
       education |-> Some(BachelorsDegree)] }

\* Job dicts.  A job created on the Job Management page has one of the labels
\* Entry/Mid/Senior/Executive as experience_level; a job dict can hold any text.
Jobs ==
    { [id |-> 1, skills_required |-> <<python, sql, react>>,
       experience_level |-> EightYears, requirements |-> <<BachelorsDegree>>],
      [id |-> 2, skills_required |-> <<>>,
       experience_level |-> <<>>, requirements |-> <<>>],
      [id |-> 3, skills_required |-> <<Python, SQL>>,
       experience_level |-> Senior, requirements |-> <<>>],
      [id |-> 4, skills_required |-> <<python, sql>>,
       experience_level |-> TenYears, requirements |-> <<>>] }

\* Filter criteria as the Candidate Filtering page builds them.
Criteria ==
    { [min_experience |-> 0, required_skills |-> <<>>,
       education_level |-> AnyLevel, score_threshold |-> 0],
      [min_experience |-> 5, required_skills |-> <<>>,
       education_level |-> AnyLevel, score_threshold |-> 50],
      [min_experience |-> 0, required_skills |-> <<SQL>>,
       education_level |-> Bachelors, score_threshold |-> 0],
      [min_experience |-> 1, required_skills |-> <<python>>,
       education_level |-> Masters, score_threshold |-> 60] }

\* Scores handed to _get_ranking_category directly, in hundredths.
CategoryScores == { Rat(h, 100) : h \in {3999, 4000, 5999, 6000, 7999, 8000} }

----------------------------------------------------------------------------
(* The state machine: a caller holding a candidate list makes one call of  *)
(* the engine at a time and drops the result before the next call.         *)

VARIABLES
    candidates,       \* the candidate list the caller holds
    result,           \* the call in progress: its arguments and what it returned
    files,            \* the JSON files of the store, by config key
    procs,            \* the StoreKeeper call each process is in
    stored,           \* what the calls of the store made so far amount to (see NoStored)
    page              \* what the last run of a page of the application did

vars == <<candidates, result, files, procs, stored, page>>

\* The variables of the store and of the pages, which the engine leaves alone.
storeVars == <<files, procs, stored, page>>

NoResult == [op |-> "none"]

\* data/ as Config.__init__ leaves it: the directories made, no file written.
NoFiles == [filepath \in {"candidates_file", "jobs_file", "interviews_file"} |->
               [state |-> "missing", doc |-> [t |-> "null", v |-> <<>>]]]

\* candidates: the dicts store_candidate reported as stored, in call order;
\* only_stores: every writing call so far was a store_candidate reporting
\* success; raised: a read or a write of a file has raised.
NoStored == [candidates |-> <<>>, only_stores |-> TRUE, raised |-> FALSE]

NoPage == [op |-> "none"]

\* The store before anything is written, nothing calling it.
StoreUntouched ==
    /\ files = NoFiles
    /\ procs = <<>>
    /\ stored = NoStored
    /\ page = NoPage

Init ==
    /\ \E n \in 0..MaxCandidates :
         \E chosen \in [1..n -> Profiles] :
            candidates = [i \in 1..n |-> [id |-> i] @@ chosen[i]]
    /\ result = NoResult
    /\ StoreUntouched

\* analyze_candidate(candidates[i], job)
AnalyzeCandidate ==
    /\ result = NoResult
    /\ \E i \in DOMAIN candidates, job \in Jobs :
          result' = [op |-> "analyze_candidate", candidate |-> candidates[i], job |-> job,
                     returned |-> analyze_candidate(candidates[i], job)]
    /\ UNCHANGED candidates
    /\ UNCHANGED storeVars

\* rank_candidates(candidates, job)
RankCandidates ==
    /\ result = NoResult
    /\ \E job \in Jobs :
          /\ result' = [op |-> "rank_candidates", job |-> job,
                        returned |-> rank_candidates(candidates, job)]
          /\ candidates' = CandidatesAfterRank(candidates, job)
    /\ UNCHANGED storeVars

\* filter_candidates(candidates, job, filter_criteria)
FilterCandidates ==
    /\ result = NoResult
    /\ \E job \in Jobs, filter_criteria \in Criteria :
          /\ result' = [op |-> "filter_candidates", job |-> job,
                        filter_criteria |-> filter_criteria,
                        returned |-> filter_candidates(candidates, job, filter_criteria)]
          /\ candidates' = CandidatesAfterFilter(candidates, job, filter_criteria)
    /\ UNCHANGED storeVars

\* _get_ranking_category(score)
GetRankingCategory ==
    /\ result = NoResult
    /\ \E score \in CategoryScores :
          result' = [op |-> "_get_ranking_category", score |-> score,
                     returned |-> _get_ranking_category(score)]
    /\ UNCHANGED candidates
    /\ UNCHANGED storeVars

\* The caller is done with the result (the page is run again).
Rerun ==
    /\ result # NoResult
    /\ result' = NoResult
    /\ UNCHANGED candidates
    /\ UNCHANGED storeVars

Next ==
    \/ AnalyzeCandidate
    \/ RankCandidates
    \/ FilterCandidates
    \/ GetRankingCategory
    \/ Rerun

Spec == Init /\ [][Next]_vars

----------------------------------------------------------------------------
(* Properties of ranking and of the overall score.                         *)

\* The candidate list of the call and the ranked list it returned.
Ranked == result.returned

\* C1: rank_candidates returns the candidates it could score (each once),
\* sorted by overall_score in descending order, and candidates with equal
\* overall_score keep their relative order from the input list.
C1_RankSortedStable ==
    result.op = "rank_candidates" =>
        /\ Len(Ranked) = Cardinality({ i \in DOMAIN candidates :
                                         ~analyze_candidate(candidates[i], result.job).error })
        /\ \A p \in DOMAIN Ranked :
              /\ Ranked[p].candidate_id \in DOMAIN candidates
              /\ candidates[Ranked[p].candidate_id] = Ranked[p].candidate_data
        /\ \A p, q \in DOMAIN Ranked :
              p < q =>
                 /\ RGe(Ranked[p].overall_score, Ranked[q].overall_score)
                 /\ Ranked[p].overall_score = Ranked[q].overall_score
                       => Ranked[p].candidate_id < Ranked[q].candidate_id

\* A ranked list in which two candidates of different content tie, a third
\* scores differently, and the input was not in ranked order already.
C1_Witness ==
    /\ result.op = "rank_candidates"
    /\ \E p, q \in DOMAIN Ranked :
          /\ p < q
          /\ Ranked[p].overall_score = Ranked[q].overall_score
          /\ Ranked[p].candidate_data.skills # Ranked[q].candidate_data.skills
    /\ \E p, q \in DOMAIN Ranked :
          /\ p < q
          /\ Ranked[p].overall_score # Ranked[q].overall_score
          /\ Ranked[p].candidate_id > Ranked[q].candidate_id

\* The analyses a call returned: the one of analyze_candidate, or all those of
\* rank_candidates.
Analyses ==
    IF result.op = "analyze_candidate" /\ ~result.returned.error THEN {result.returned}
    ELSE IF result.op = "rank_candidates" THEN { Ranked[p] : p \in DOMAIN Ranked }
    ELSE {}

\* C2: the overall_score of every analysis lies within [0,100].
C2_OverallWithinBounds ==
    \A a \in Analyses :
        /\ RGe(a.overall_score, FromInt(0))
        /\ RGe(FromInt(100), a.overall_score)

\* A ranked list holding both the highest and the lowest overall score the
\* engine gives, 91 and 10.
C2_Witness ==
    /\ result.op = "rank_candidates"
    /\ \E a, b \in Analyses :
          /\ a.overall_score = FromInt(91)
          /\ b.overall_score = FromInt(10)

\* Sub-score triples on a grid of [0,100].
SubScoreGrid == { FromInt(10 * k) : k \in 0..10 }

\* The weighted formula takes values between v0, its value at 0/0/0, and v100,
\* its value at 100/100/100, on the grid.
FormulaExtremes(v0, v100) ==
    /\ OverallScore(FromInt(0), FromInt(0), FromInt(0)) = v0
    /\ OverallScore(FromInt(100), FromInt(100), FromInt(100)) = v100
    /\ \A s, e, d \in SubScoreGrid :
          /\ RGe(OverallScore(s, e, d), v0)
          /\ RGe(v100, OverallScore(s, e, d))

FormulaExtremesOfCode == FormulaExtremes(FromInt(1), FromInt(91))

\* C3 as claimed: an analysis with sub-scores 0/0/0 has overall score 10, one
\* with sub-scores 100/100/100 has overall score 100, and every overall
\* score lies between the two.
C3_ExtremesTenAndHundred ==
    \A a \in Analyses :
        LET subs == {a.skill_match_score, a.experience_match_score, a.education_match_score}
        IN  /\ subs = {FromInt(0)} => a.overall_score = FromInt(10)
            /\ subs = {FromInt(100)} => a.overall_score = FromInt(100)
            /\ RGe(a.overall_score, FromInt(10))
            /\ RGe(FromInt(100), a.overall_score)

\* C3, amended: the weighted formula yields 1 for the sub-scores 0/0/0 and 91
\* for 100/100/100, these are its extremes, and so the overall score of every
\* analysis lies within [1,91], an analysis with sub-scores 100/100/100
\* having 91.
C3_ExtremesOneAndNinetyOne ==
    /\ FormulaExtremesOfCode
    /\ \A a \in Analyses :
          LET subs == {a.skill_match_score, a.experience_match_score, a.education_match_score}
          IN  /\ subs = {FromInt(0)} => a.overall_score = FromInt(1)
              /\ subs = {FromInt(100)} => a.overall_score = FromInt(91)
              /\ RGe(a.overall_score, FromInt(1))
              /\ RGe(FromInt(91), a.overall_score)

\* An analysis with sub-scores 100/100/100 and overall score 91.
C3_Witness ==
    \E a \in Analyses :
        /\ result.op = "analyze_candidate"
        /\ {a.skill_match_score, a.experience_match_score, a.education_match_score} = {FromInt(100)}
        /\ a.overall_score = FromInt(91)

\* The band the thresholds give a score: 80 and more Excellent, 60 up to 80
\* Good, 40 up to 60 Average, less than 40 Below Average.
InBand(score, category) ==
    /\ category = "Excellent"     <=> RGe(score, FromInt(80))
    /\ category = "Good"          <=> RGe(score, FromInt(60)) /\ RLt(score, FromInt(80))
    /\ category = "Average"       <=> RGe(score, FromInt(40)) /\ RLt(score, FromInt(60))
    /\ category = "Below Average" <=> RLt(score, FromInt(40))

\* C4: the ranking category follows the inclusive thresholds 80, 60 and 40 on
\* the overall score: exactly 80 is Excellent, exactly 60 Good, exactly 40
\* Average; both for _get_ranking_category itself and for the ranking an
\* analysis carries next to its overall_score.
C4_RankingThresholdsInclusive ==
    /\ result.op = "_get_ranking_category" => InBand(result.score, result.returned)
    /\ \A a \in Analyses : InBand(a.overall_score, a.ranking)

\* An analysis whose overall score is exactly 60, ranked Good.
C4_Witness ==
    /\ result.op = "analyze_candidate"
    /\ ~result.returned.error
    /\ result.returned.overall_score = FromInt(60)
    /\ result.returned.ranking = "Good"

\* _get_ranking_category at exactly 80, 40: Excellent, Average.
C4_BoundaryCalls ==
    /\ result.op = "_get_ranking_category"
    /\ result.score \in {FromInt(80), FromInt(40)}

----------------------------------------------------------------------------
(* Properties of filter_candidates.                                        *)

Criterion == result.filter_criteria

Filtered == result.returned.filtered_candidates

\* The four criteria, for an entry a of the ranked list.
MeetsExperience(a, crit) ==
    _extract_years(a.candidate_data.experience) >= crit.min_experience

MeetsSkills(a, crit) ==
    \A i \in DOMAIN crit.required_skills :
        \E j \in DOMAIN a.candidate_data.skills.val :
            Lower(a.candidate_data.skills.val[j]) = Lower(crit.required_skills[i])

MeetsEducation(a, crit) ==
    crit.education_level # AnyLevel =>
        /\ ~a.candidate_data.education.none
        /\ Contains(Lower(a.candidate_data.education.val), Lower(crit.education_level))

MeetsScore(a, crit) == RGe(a.overall_score, FromInt(crit.score_threshold))

MeetsAll(a, crit) ==
    MeetsExperience(a, crit) /\ MeetsSkills(a, crit) /\ MeetsEducation(a, crit) /\ MeetsScore(a, crit)

\* The ranked list restricted to the entries that meet all four criteria, each
\* as the candidate with match_score, ranking and recommendations attached.
PassingRanked(cands, j, crit) ==
    LET passing == SelectSeq(rank_candidates(cands, j), LAMBDA a : MeetsAll(a, crit))
    IN  [k \in DOMAIN passing |->
            passing[k].candidate_data @@
                [ match_score     |-> passing[k].overall_score,
                  ranking         |-> passing[k].ranking,
                  recommendations |-> passing[k].recommendations ]]

\* Candidate dicts as Candidate.to_dict() gives them: skills holds a list.
SkillsAreLists == \A i \in DOMAIN candidates : ~candidates[i].skills.none

\* C5: filter_candidates (on candidates as Candidate.to_dict() gives them)
\* returns exactly the ranked list, in ranked order, restricted to the
\* candidates that satisfy all four criteria, each carrying match_score,
\* ranking and recommendations.
C5_FilterReturnsPassingRanked ==
    result.op = "filter_candidates" /\ SkillsAreLists =>
        Filtered = PassingRanked(candidates, result.job, Criterion)

\* What remains of C5 in the code: the equation holds whenever the call
\* reports success.
C5_HoldsOnSuccess ==
    result.op = "filter_candidates" /\ result.returned.success =>
        /\ Filtered = PassingRanked(candidates, result.job, Criterion)
        /\ result.returned.total_candidates = Len(candidates)
        /\ result.returned.filtered_count = Len(Filtered)

\* Experience entries of the candidates above in which the pattern finds no
\* year count: no text at all, and "3+ years".
NoYearCount == {None, Some(<<>>), Some(ThreePlus)}

\* C6: filter_candidates never returns a candidate whose extracted years are
\* below min_experience; a candidate whose experience text is missing or
\* unextractable counts as 0 years, and so with min_experience = 0 it is not
\* held back by the experience criterion: it is returned when it meets the
\* other three criteria (and the call succeeds).
C6_MinExperienceRespected ==
    result.op = "filter_candidates" =>
        /\ \A k \in DOMAIN Filtered :
              _extract_years(Filtered[k].experience) >= Criterion.min_experience
        /\ \A i \in DOMAIN candidates :
              candidates[i].experience \in NoYearCount =>
                  _extract_years(candidates[i].experience) = 0
        /\ LET ranked == rank_candidates(candidates, result.job)
           IN  \A p \in DOMAIN ranked :
                  ( /\ Criterion.min_experience = 0
                    /\ result.returned.success
                    /\ ranked[p].candidate_data.experience \in NoYearCount
                    /\ MeetsSkills(ranked[p], Criterion)
                    /\ MeetsEducation(ranked[p], Criterion)
                    /\ MeetsScore(ranked[p], Criterion) )
                  => \E k \in DOMAIN Filtered : Filtered[k].id = ranked[p].candidate_data.id

\* With min_experience = 0 a candidate without experience text is returned,
\* next to one with a year count.
C6_Witness ==
    /\ result.op = "filter_candidates"
    /\ Criterion.min_experience = 0
    /\ \E k \in DOMAIN Filtered : Filtered[k].experience = None
    /\ \E k \in DOMAIN Filtered : _extract_years(Filtered[k].experience) > 0

\* With min_experience = 5 candidates with fewer years were held back.
C6_WitnessHeldBack ==
    /\ result.op = "filter_candidates"
    /\ Criterion.min_experience = 5
    /\ Filtered # <<>>
    /\ Len(Filtered) < Len(candidates)

----------------------------------------------------------------------------
(* Properties of the sub-scores.                                           *)

\* The analyses a call returned, each with the candidate it is about.
Scored ==
    IF result.op = "analyze_candidate" /\ ~result.returned.error
    THEN {[analysis |-> result.returned, candidate |-> result.candidate]}
    ELSE IF result.op = "rank_candidates"
    THEN { [analysis |-> Ranked[p], candidate |-> Ranked[p].candidate_data] : p \in DOMAIN Ranked }
    ELSE {}

\* C7: for a job whose skills_required is empty the skill score is 50 for
\* every candidate, whatever the candidate's skills.
C7_NoRequiredSkillsNeutral ==
    \A s \in Scored :
        result.job.skills_required = <<>> => s.analysis.skill_match_score = FromInt(50)

\* A candidate with skills scored for a job without required skills.
C7_Witness ==
    \E s \in Scored :
        /\ result.job.skills_required = <<>>
        /\ Truthy(s.candidate.skills)
        /\ s.analysis.skill_match_score = FromInt(50)

\* The required skills of job j found, case-insensitively, in the skills of c.
SkillsFound(c, j) ==
    { i \in DOMAIN j.skills_required :
        \E k \in DOMAIN c.skills.val : Lower(c.skills.val[k]) = Lower(j.skills_required[i]) }

\* C8: for a job with a non-empty skills_required list the skill score is
\* (required skills found case-insensitively in the candidate's skills) /
\* (number of required skills) * 100; a candidate with {python, sql} against
\* {python, sql, react} gets 200/3, which is 66.67 to two decimals.
C8_SkillScoreIsShareFound ==
    \A s \in Scored :
        result.job.skills_required # <<>> =>
            /\ s.analysis.skill_match_score =
                   Rat(100 * Cardinality(SkillsFound(s.candidate, result.job)),
                       Len(result.job.skills_required))
            /\ ( /\ s.candidate.skills = Some(<<python, sql>>)
                 /\ result.job.skills_required = <<python, sql, react>> )
               => /\ s.analysis.skill_match_score = Rat(200, 3)
                  /\ Round2(s.analysis.skill_match_score) = Rat(6667, 100)

\* The example of C8, and in the same ranked list a candidate whose skills
\* match only when case is ignored.
C8_Witness ==
    /\ result.op = "rank_candidates"
    /\ result.job.skills_required = <<python, sql, react>>
    /\ \E s \in Scored :
          /\ s.candidate.skills = Some(<<python, sql>>)
          /\ s.analysis.skill_match_score = Rat(200, 3)
    /\ \E s \in Scored :
          /\ s.candidate.skills = Some(<<Python, SQL, react>>)
          /\ s.analysis.skill_match_score = FromInt(100)

\* Whether the pattern of _extract_years finds a year count in the text.
StatesYears(text) ==
    \E i \in 1..Len(text) : YearMatchLens(Lower(text), i) # {}

\* The experience score of cy candidate years against R required years.
ExperienceBand(cy, R) ==
    IF cy >= R THEN 100
    ELSE IF 10 * cy >= 8 * R THEN 80
    ELSE IF 10 * cy >= 6 * R THEN 60
    ELSE 30

\* C9: when the job states a required year count R, the experience score is
\* 100 if the candidate's years are at least R, 80 if at least 80% of R, 60 if
\* at least 60% of R, and 30 otherwise; "5 years of experience" against
\* "8 years" scores 60.
C9_ExperienceBands ==
    \A s \in Scored :
        StatesYears(result.job.experience_level) =>
            /\ s.analysis.experience_match_score =
                   FromInt(ExperienceBand(_extract_years(s.candidate.experience),
                                          _extract_years(Some(result.job.experience_level))))
            /\ ( /\ s.candidate.experience = Some(FiveYearsOfExperience)
                 /\ result.job.experience_level = EightYears )
               => /\ _extract_years(s.candidate.experience) = 5
                  /\ _extract_years(Some(result.job.experience_level)) = 8
                  /\ s.analysis.experience_match_score = FromInt(60)

\* The example of C9 in a ranked list that also holds a candidate scoring 80
\* and one scoring 100 on experience.
C9_Witness ==
    /\ result.op = "rank_candidates"
    /\ result.job.experience_level = EightYears
    /\ \E s \in Scored :
          /\ s.candidate.experience = Some(FiveYearsOfExperience)
          /\ s.analysis.experience_match_score = FromInt(60)
    /\ \E s \in Scored : s.analysis.experience_match_score = FromInt(80)
    /\ \E s \in Scored : s.analysis.experience_match_score = FromInt(100)

\* C10 as claimed: when the job states no required year count (its
\* experience_level is empty or a label such as Senior), the experience score
\* is 50 for every candidate.
C10_NoStatedYearsNeutral ==
    \A s \in Scored :
        ~StatesYears(result.job.experience_level) =>
            s.analysis.experience_match_score = FromInt(50)

\* C10, amended: when the job's experience_level is empty, the experience
\* score is 50 for every candidate.
C10_EmptyLevelNeutral ==
    \A s \in Scored :
        result.job.experience_level = <<>> =>
            s.analysis.experience_match_score = FromInt(50)

\* A candidate with a year count scored for a job with an empty
\* experience_level.
C10_Witness ==
    \E s \in Scored :
        /\ result.job.experience_level = <<>>
        /\ _extract_years(s.candidate.experience) > 0
        /\ s.analysis.experience_match_score = FromInt(50)

----------------------------------------------------------------------------
(* Properties of the education score and of a failing analysis.            *)

\* The keywords of the claim that occur in an education entry, case ignored;
\* an entry of None holds none.
KeywordsOccurring(education) ==
    { w \in { <<"b", "a", "c", "h", "e", "l", "o", "r">>, <<"m", "a", "s", "t", "e", "r">>,
              <<"p", "h", "d">>, <<"d", "e", "g", "r", "e", "e">>,
              <<"u", "n", "i", "v", "e", "r", "s", "i", "t", "y">>,
              <<"c", "o", "l", "l", "e", "g", "e">> } :
        /\ ~education.none
        /\ Contains(Lower(education.val), w) }

\* C11: the education score is 20 times the number of the six keywords
\* (bachelor, master, phd, degree, university, college) occurring in the
\* candidate's education text, capped at 100; for a job with an empty
\* requirements list it is 50 whatever the candidate.
C11_EducationScore ==
    \A s \in Scored :
        s.analysis.education_match_score =
            IF result.job.requirements = <<>> THEN FromInt(50)
            ELSE FromInt(Min({20 * Cardinality(KeywordsOccurring(s.candidate.education)), 100}))

\* A ranked list for a job with requirements holding a candidate with all
\* six keywords (120 capped to 100), one with two keywords (40) and one with
\* no education text (0).
C11_Witness ==
    /\ result.op = "rank_candidates"
    /\ result.job.requirements # <<>>
    /\ \E s \in Scored :
          /\ Cardinality(KeywordsOccurring(s.candidate.education)) = 6
          /\ s.analysis.education_match_score = FromInt(100)
    /\ \E s \in Scored :
          /\ Cardinality(KeywordsOccurring(s.candidate.education)) = 2
          /\ s.analysis.education_match_score = FromInt(40)
    /\ \E s \in Scored :
          /\ s.candidate.education.none
          /\ s.analysis.education_match_score = FromInt(0)

\* An analysis for a job with an empty requirements list of a candidate whose
\* education text holds keywords: 50.
C11_WitnessNoRequirements ==
    \E s \in Scored :
        /\ result.job.requirements = <<>>
        /\ KeywordsOccurring(s.candidate.education) # {}
        /\ s.analysis.education_match_score = FromInt(50)

\* The positions of the ranked list holding candidate i.
RankedAt(i) == { p \in DOMAIN Ranked : Ranked[p].candidate_id = i }

\* C12: in rank_candidates a candidate whose scoring raises is left out of
\* the ranked list, every other candidate is in it once with the analysis it
\* gets on its own, and the list returned holds no error entry.
C12_FailedScoringSkipped ==
    result.op = "rank_candidates" =>
        /\ \A i \in DOMAIN candidates :
              LET analysis == analyze_candidate(candidates[i], result.job)
              IN  IF analysis.error THEN RankedAt(i) = {}
                  ELSE /\ Cardinality(RankedAt(i)) = 1
                       /\ \A p \in RankedAt(i) :
                             Ranked[p] = analysis @@ [candidate_data |-> candidates[i]]
        /\ \A p \in DOMAIN Ranked : ~Ranked[p].error

\* A ranked list of two candidates for a job with required skills, from a
\* list of three whose second candidate has None as skills, so that its
\* scoring raises.
C12_Witness ==
    /\ result.op = "rank_candidates"
    /\ result.job.skills_required # <<>>
    /\ Len(candidates) = 3
    /\ candidates[2].skills.none
    /\ analyze_candidate(candidates[2], result.job).error
    /\ { Ranked[p].candidate_id : p \in DOMAIN Ranked } = {1, 3}

----------------------------------------------------------------------------
(* The JSON store: helpers.py and StoreKeeper.                             *)
(* A dict of the store is a record; a text entry that can be None is an    *)
(* optional.  A file holds a JSON document, written by json.dump and read  *)
(* back by json.load.                                                      *)

\* Calls of the store one process makes at most.
MaxCalls == 4

\* JSON values.
JsonNull == [t |-> "null", v |-> <<>>]
JsonString(s) == [t |-> "string", v |-> s]
JsonArray(elements) == [t |-> "array", v |-> elements]
\* members: a sequence of <<key, value>>, in the order of the dict
JsonObject(members) == [t |-> "object", v |-> members]

\* The keys of the dicts of the store, in the order their dataclasses declare
\* them (job_id is no field of Candidate: a candidate dict holding it has it
\* behind the fields).
DictKeys ==
    << "id", "name", "email", "phone", "candidate_id", "title",
       "scheduled_time", "status", "job_id" >>

\* The entries that hold None or a text; every other entry holds a text.
OptionalKeys == {"phone"}

\* The keys of dict d, in order.
KeysOf(d) == SelectSeq(DictKeys, LAMBDA k : k \in DOMAIN d)

\* json.dump of one dict of a list: None becomes null, a text a string.
DictToJson(d) ==
    JsonObject([ i \in 1..Len(KeysOf(d)) |->
                   LET k == KeysOf(d)[i]
                   IN  << k, IF k \in OptionalKeys
                             THEN IF d[k].none THEN JsonNull ELSE JsonString(d[k].val)
                             ELSE JsonString(d[k]) >> ])

\* json.load of one object: null becomes None, a string a text.
JsonToDict(object) ==
    [ k \in { object.v[i][1] : i \in DOMAIN object.v } |->
        LET member == object.v[CHOOSE i \in DOMAIN object.v : object.v[i][1] = k][2]
        IN  IF k \in OptionalKeys
            THEN IF member.t = "null" THEN None ELSE Some(member.v)
            ELSE member.v ]

\* A dict of helpers.py with at most the one list key of its file: has tells
\* whether the key is in it, items is the list under the key.
EmptyDict == [has |-> FALSE, items |-> <<>>]

\* The list key each file is written with.
ListKey ==
    [ candidates_file |-> "candidates", jobs_file |-> "jobs", interviews_file |-> "interviews" ]

\* json.dump(data, f)
json_dump(data, key) ==
    JsonObject(IF data.has
               THEN << << key, JsonArray([ i \in DOMAIN data.items |-> DictToJson(data.items[i]) ]) >> >>
               ELSE << >>)

\* json.load(f)
json_load(doc, key) ==
    IF \E i \in DOMAIN doc.v : doc.v[i][1] = key
    THEN LET array == doc.v[CHOOSE i \in DOMAIN doc.v : doc.v[i][1] = key][2]
         IN  [has |-> TRUE, items |-> [ i \in DOMAIN array.v |-> JsonToDict(array.v[i]) ]]
    ELSE EmptyDict

\* A file: missing, holding a JSON document, or corrupt (cut short by a write
\* that failed after open(filepath, 'w') had emptied it).
MissingFile == [state |-> "missing", doc |-> JsonNull]
CorruptFile == [state |-> "corrupt", doc |-> JsonNull]
JsonFile(doc) == [state |-> "json", doc |-> doc]

\* Whether the try block of load_json raises: the file is there and either
\* reading it fails (read_ok is what the operating system does) or its text
\* is no JSON document.
LoadRaises(file, read_ok) ==
    file.state # "missing" /\ (~read_ok \/ file.state = "corrupt")

\* load_json: the dict of the file; {} when the file is missing and, from the
\* except branch, when reading or decoding raised.
load_json(file, key, read_ok) ==
    IF file.state = "missing" THEN EmptyDict
    ELSE IF LoadRaises(file, read_ok) THEN EmptyDict
    ELSE json_load(file.doc, key)

\* What a write does: it succeeds, open() raises, or json.dump raises after
\* open() has emptied the file.
WriteOutcomes == {"written", "open raises", "dump raises"}

\* A write that keeps, behind what it is given, the dicts that are in the file
\* and not in what it is given.
SaveJsonMerging(data, file, key, outcome) ==
    IF outcome = "written"
    THEN LET there == load_json(file, key, TRUE).items
             kept  == SelectSeq(there, LAMBDA d : \A i \in DOMAIN data.items : data.items[i].id # d.id)
         IN  [file |-> JsonFile(json_dump([has |-> data.has, items |-> data.items \o kept], key)),
              returned |-> TRUE]
    ELSE IF outcome = "open raises"
    THEN [file |-> file, returned |-> FALSE]
    ELSE [file |-> CorruptFile, returned |-> FALSE]

\* save_json: the file afterwards and the value returned.
save_json(data, file, key, outcome) ==
    IF outcome = "written"
    THEN [file |-> JsonFile(json_dump(data, key)), returned |-> TRUE]
    ELSE IF outcome = "open raises"
    THEN [file |-> file, returned |-> FALSE]
    ELSE [file |-> CorruptFile, returned |-> FALSE]

\* The position of the first dict of items with this id, 0 when there is none.
FirstWithId(items, id) ==
    IF \E i \in DOMAIN items : items[i].id = id
    THEN Min({ i \in DOMAIN items : items[i].id = id })
    ELSE 0

\* append_to_json_list between load_json and save_json: the key is given an
\* empty list when it is missing, and data is appended.
AppendToList(existing_data, data) ==
    [has |-> TRUE, items |-> Append(existing_data.items, data)]

\* update_candidate_status between load_json and save_json: the first
\* candidate with the id gets the status, and the list is put back under its
\* key.
SetStatus(data, candidate_id, status) ==
    LET candidates_list == data.items
        i == FirstWithId(candidates_list, candidate_id)
    IN  [has |-> TRUE,
         items |-> IF i = 0 THEN candidates_list
                   ELSE [candidates_list EXCEPT ![i] = [@ EXCEPT !.status = status]]]

\* update_candidate between load_json and save_json: the first candidate with
\* the id of candidate_data is replaced by candidate_data.
ReplaceCandidate(data, candidate_data) ==
    LET candidates_list == data.items
        i == FirstWithId(candidates_list, candidate_data.id)
    IN  [has |-> TRUE,
         items |-> IF i = 0 THEN candidates_list
                   ELSE [candidates_list EXCEPT ![i] = candidate_data]]

\* The dict a store operation returns for the value of save_json.
StoreReturn(op, saved) ==
    [ success |-> saved,
      message |->
        IF op = "store_candidate"
        THEN IF saved THEN "Candidate stored successfully" ELSE "Failed to store candidate"
        ELSE IF op = "update_candidate_status"
        THEN IF saved THEN "Status updated successfully" ELSE "Failed to update status"
        ELSE IF saved THEN "Candidate updated successfully" ELSE "Failed to update candidate" ]

----------------------------------------------------------------------------
(* Candidate dicts handed to the store.                                    *)

Ann == [id |-> "c1", name |-> "Ann", email |-> "ann@x.io", phone |-> None, status |-> "new"]
Bob == [id |-> "c2", name |-> "Bob", email |-> "bob@x.io", phone |-> Some(<<"5", "5", "5">>),
        status |-> "new"]

\* The dicts store_candidate is called with.
StoreCandidates == {Ann, Bob}

\* The dicts update_candidate is called with: a stored dict with the decision
\* of a review as its status.
CandidateUpdates == { [Ann EXCEPT !.status = "approved"], [Bob EXCEPT !.status = "rejected"] }

\* The arguments update_candidate_status is called with.
StatusUpdates == { [candidate_id |-> "c1", status |-> "interviewed"],
                   [candidate_id |-> "c2", status |-> "interviewed"] }

----------------------------------------------------------------------------
(* The store as a state machine.  A call of store_candidate,               *)
(* update_candidate_status or update_candidate takes two steps, the load   *)
(* of the file (with the change made to what was loaded) and the save;     *)
(* nothing locks the file between the two.  get_candidates takes one.      *)

\* The processes there can be.
Writers == {1, 2}

NoReturn == [success |-> FALSE, message |-> ""]

\* A process that is in no call and can make budget more.
Idle(budget) ==
    [ pc |-> "idle", op |-> "none", arg |-> <<>>, data |-> EmptyDict,
      before |-> MissingFile, read_raised |-> FALSE, write_raised |-> FALSE,
      ret |-> NoReturn, listed |-> <<>>, budget |-> budget ]

\* The process after the load step of a call of op with arg: data is what it
\* will save.
Loaded(p, op, arg, data, read_ok) ==
    [ procs[p] EXCEPT !.pc = "loaded", !.op = op, !.arg = arg, !.data = data,
                      !.before = files.candidates_file,
                      !.read_raised = LoadRaises(files.candidates_file, read_ok),
                      !.budget = @ - 1 ]

\* stored after a read of the candidates file.
AfterRead(read_ok) ==
    [stored EXCEPT !.raised = @ \/ LoadRaises(files.candidates_file, read_ok)]

\* store_candidate up to the load of append_to_json_list
StoreCandidate(p) ==
    /\ p \in DOMAIN procs
    /\ procs[p].pc = "idle"
    /\ procs[p].budget > 0
    /\ \E candidate_data \in StoreCandidates, read_ok \in BOOLEAN :
          LET existing_data == load_json(files.candidates_file, "candidates", read_ok)
          IN  /\ procs' = [procs EXCEPT ![p] =
                              Loaded(p, "store_candidate", candidate_data,
                                     AppendToList(existing_data, candidate_data), read_ok)]
              /\ stored' = AfterRead(read_ok)
    /\ UNCHANGED <<candidates, result, files, page>>

\* update_candidate_status up to its load
UpdateCandidateStatus(p) ==
    /\ p \in DOMAIN procs
    /\ procs[p].pc = "idle"
    /\ procs[p].budget > 0
    /\ \E update \in StatusUpdates, read_ok \in BOOLEAN :
          LET data == load_json(files.candidates_file, "candidates", read_ok)
          IN  /\ procs' = [procs EXCEPT ![p] =
                              Loaded(p, "update_candidate_status", update,
                                     SetStatus(data, update.candidate_id, update.status), read_ok)]
              /\ stored' = AfterRead(read_ok)
    /\ UNCHANGED <<candidates, result, files, page>>

\* update_candidate up to its load
UpdateCandidate(p) ==
    /\ p \in DOMAIN procs
    /\ procs[p].pc = "idle"
    /\ procs[p].budget > 0
    /\ \E candidate_data \in CandidateUpdates, read_ok \in BOOLEAN :
          LET data == load_json(files.candidates_file, "candidates", read_ok)
          IN  /\ procs' = [procs EXCEPT ![p] =
                              Loaded(p, "update_candidate", candidate_data,
                                     ReplaceCandidate(data, candidate_data), read_ok)]
              /\ stored' = AfterRead(read_ok)
    /\ UNCHANGED <<candidates, result, files, page>>

\* The save_json of the call the process is in, and the return of the call.
Save(p) ==
    /\ p \in DOMAIN procs
    /\ procs[p].pc = "loaded"
    /\ \E outcome \in WriteOutcomes :
          LET saved == save_json(procs[p].data, files.candidates_file, "candidates", outcome)
          IN  /\ files' = [files EXCEPT !.candidates_file = saved.file]
              /\ procs' = [procs EXCEPT ![p] =
                              [@ EXCEPT !.pc = "done",
                                        !.write_raised = ~saved.returned,
                                        !.ret = StoreReturn(procs[p].op, saved.returned)]]
              /\ stored' =
                    [ candidates  |-> IF procs[p].op = "store_candidate" /\ saved.returned
                                      THEN Append(stored.candidates, procs[p].arg)
                                      ELSE stored.candidates,
                      only_stores |-> /\ stored.only_stores
                                      /\ procs[p].op = "store_candidate"
                                      /\ saved.returned,
                      raised      |-> stored.raised \/ ~saved.returned ]
    /\ UNCHANGED <<candidates, result, page>>

\* get_candidates
GetCandidates(p) ==
    /\ p \in DOMAIN procs
    /\ procs[p].pc = "idle"
    /\ procs[p].budget > 0
    /\ \E read_ok \in BOOLEAN :
          LET data == load_json(files.candidates_file, "candidates", read_ok)
          IN  /\ procs' = [procs EXCEPT ![p] =
                              [@ EXCEPT !.pc = "done", !.op = "get_candidates",
                                        !.before = files.candidates_file,
                                        !.read_raised = LoadRaises(files.candidates_file, read_ok),
                                        !.listed = data.items,
                                        !.budget = @ - 1]]
              /\ stored' = AfterRead(read_ok)
    /\ UNCHANGED <<candidates, result, files, page>>

\* The caller goes on after the call.
Return(p) ==
    /\ p \in DOMAIN procs
    /\ procs[p].pc = "done"
    /\ procs' = [procs EXCEPT ![p] = Idle(procs[p].budget)]
    /\ UNCHANGED <<candidates, result, files, stored, page>>

\* One process calling the store.
StoreInit ==
    /\ candidates = <<>>
    /\ result = NoResult
    /\ files = NoFiles
    /\ procs = [p \in {1} |-> Idle(MaxCalls)]
    /\ stored = NoStored
    /\ page = NoPage

StoreNext ==
    \/ \E p \in Writers : StoreCandidate(p)
    \/ \E p \in Writers : UpdateCandidateStatus(p)
    \/ \E p \in Writers : UpdateCandidate(p)
    \/ \E p \in Writers : Save(p)
    \/ \E p \in Writers : GetCandidates(p)
    \/ \E p \in Writers : Return(p)

StoreSpec == StoreInit /\ [][StoreNext]_vars

\* Two processes (two sessions of the application), each making one call that
\* writes to the store, which is empty or holds what storing Ann and then Bob
\* leaves in it.
RaceInit ==
    /\ candidates = <<>>
    /\ result = NoResult
    /\ \E earlier \in {<<>>, <<Ann, Bob>>} :
          /\ files = IF earlier = <<>> THEN NoFiles
                     ELSE [NoFiles EXCEPT !.candidates_file =
                              JsonFile(json_dump([has |-> TRUE, items |-> earlier], "candidates"))]
          /\ stored = [NoStored EXCEPT !.candidates = earlier]
    /\ procs = [p \in {1, 2} |-> Idle(MaxCalls)]
    /\ page = NoPage

RaceNext ==
    \/ \E p \in Writers : StoreCandidate(p)
    \/ \E p \in Writers : UpdateCandidateStatus(p)
    \/ \E p \in Writers : UpdateCandidate(p)
    \/ \E p \in Writers : Save(p)

RaceSpec == RaceInit /\ [][RaceNext]_vars

----------------------------------------------------------------------------
(* Properties of the store.                                                *)

\* The candidate dicts a file holds: what get_candidates lists when reading
\* the file works.
RecordsIn(file) == load_json(file, "candidates", TRUE).items

\* The processes that are back from a call of op.
BackFrom(op) == { p \in DOMAIN procs : procs[p].pc = "done" /\ procs[p].op = op }

\* C13: after successful store_candidate calls and no other writing call,
\* get_candidates returns every stored dict unchanged, in insertion order (so
\* a dict stored right before the listing is in it as stored) - stated for a
\* listing whose own read works.
C13_StoreRoundTrip ==
    \A p \in BackFrom("get_candidates") :
        (stored.only_stores /\ ~procs[p].read_raised) =>
            procs[p].listed = stored.candidates

\* The same with no read or write having raised.
C13_HoldsWhenNothingRaises ==
    \A p \in BackFrom("get_candidates") :
        (stored.only_stores /\ ~stored.raised) =>
            procs[p].listed = stored.candidates

\* A listing of two dicts stored one after the other, nothing having raised.
C13_RoundTripReached ==
    \E p \in BackFrom("get_candidates") :
        /\ stored.only_stores /\ ~stored.raised
        /\ procs[p].listed = <<Bob, Ann>>

\* The writing operations of the store.
WritingOps == {"store_candidate", "update_candidate_status", "update_candidate"}

\* C14: a store operation whose read or write of the file raised returns
\* success false with a message and leaves the stored dicts as they were.
C14_FailedIOAborts ==
    \A p \in DOMAIN procs :
        ( /\ procs[p].pc = "done"
          /\ procs[p].op \in WritingOps
          /\ procs[p].read_raised \/ procs[p].write_raised )
        => /\ ~procs[p].ret.success
           /\ procs[p].ret.message # ""
           /\ RecordsIn(files.candidates_file) = RecordsIn(procs[p].before)

\* What does hold: an operation whose write raised returns success false with
\* a message.
C14_FailedWriteReported ==
    \A p \in DOMAIN procs :
        (procs[p].pc = "done" /\ procs[p].op \in WritingOps /\ procs[p].write_raised)
        => /\ ~procs[p].ret.success
           /\ procs[p].ret.message # ""

\* What a call of op with arg makes of the dicts it loaded.
Changed(op, arg, loaded) ==
    IF op = "store_candidate" THEN Append(loaded, arg)
    ELSE IF op = "update_candidate_status"
    THEN [ i \in DOMAIN loaded |->
             IF loaded[i].id = arg.candidate_id /\ \A j \in 1..(i - 1) : loaded[j].id # loaded[i].id
             THEN [loaded[i] EXCEPT !.status = arg.status]
             ELSE loaded[i] ]
    ELSE [ i \in DOMAIN loaded |->
             IF loaded[i].id = arg.id /\ \A j \in 1..(i - 1) : loaded[j].id # loaded[i].id
             THEN arg
             ELSE loaded[i] ]

\* The dicts process p read at its load step (none when the read raised).
LoadedBy(p) == IF procs[p].read_raised THEN <<>> ELSE RecordsIn(procs[p].before)

\* C15: nothing locks the file between the load and the save of a call, and a
\* save that succeeds leaves in the file what its own call made of the dicts
\* it loaded, whatever another call saved in between: the last writer wins,
\* and the record of the other writer can be absent although both calls
\* reported success (C15_Witness).
C15_LastWriterWins ==
    [][ \A p \in DOMAIN procs :
          ( procs[p].pc = "loaded" /\ procs'[p].pc = "done" /\ procs'[p].ret.success )
          => RecordsIn(files'.candidates_file) = Changed(procs[p].op, procs[p].arg, LoadedBy(p))
      ]_vars

\* Two store_candidate calls that both loaded the file before either saved:
\* both reported success, nothing raised, and the dict of the one that saved
\* first is not in the file.
C15_Witness ==
    /\ DOMAIN procs = {1, 2}
    /\ \A p \in {1, 2} :
          /\ procs[p].pc = "done"
          /\ procs[p].op = "store_candidate"
          /\ procs[p].ret.success
    /\ ~stored.raised
    /\ procs[1].arg # procs[2].arg
    /\ procs[1].before = procs[2].before
    /\ \A i \in DOMAIN RecordsIn(files.candidates_file) :
          RecordsIn(files.candidates_file)[i] # procs[1].arg
    /\ \E i \in DOMAIN RecordsIn(files.candidates_file) :
          RecordsIn(files.candidates_file)[i] = procs[2].arg

\* Two update_candidate_status calls for different candidates, interleaved in
\* the same way: both reported success and only one status is in the file.
C15_WitnessStatusLost ==
    /\ DOMAIN procs = {1, 2}
    /\ \A p \in {1, 2} :
          /\ procs[p].pc = "done"
          /\ procs[p].op = "update_candidate_status"
          /\ procs[p].ret.success
    /\ ~stored.raised
    /\ { RecordsIn(files.candidates_file)[i].status : i \in DOMAIN RecordsIn(files.candidates_file) }
          = {"new", "interviewed"}

\* The candidate ids in the store.
IdsIn(file) == { RecordsIn(file)[i].id : i \in DOMAIN RecordsIn(file) }

\* C16: a candidate id that is in the store is still in it after any store
\* operation (store_candidate, update_candidate, update_candidate_status).
C16_NeverDeleted ==
    [][ IdsIn(files.candidates_file) \subseteq IdsIn(files'.candidates_file) ]_vars

\* The same for the steps up to which no read or write has raised.
C16_HoldsWhenNothingRaises ==
    [][ ~stored'.raised => IdsIn(files.candidates_file) \subseteq IdsIn(files'.candidates_file) ]_vars

----------------------------------------------------------------------------
(* The pages of the application (app.py) over the store.  A page run is    *)
(* one step: its calls of the store are made one after the other by the    *)
(* one session, and the reads and writes of its files work.                *)

\* append_to_json_list, load to save: the file afterwards and the value
\* returned.
append_to_json_list(data, file, key, read_ok, outcome) ==
    save_json(AppendToList(load_json(file, key, read_ok), data), file, key, outcome)

\* get_candidates / get_jobs / get_interviews, the read working.
ListOf(filepath) == load_json(files[filepath], ListKey[filepath], TRUE).items

\* generate_id() for the jobs and the interviews created, in order.
JobIds == <<"j1", "j2">>
InterviewIds == <<"i1", "i2">>

\* The titles typed into the job form.
JobTitles == {"Developer", "Analyst"}

\* A candidate dict that holds a job_id, which no Candidate.to_dict() does.
Cy == [id |-> "c3", name |-> "Cy", email |-> "cy@x.io", phone |-> None, status |-> "new",
       job_id |-> "j1"]

\* The candidate dicts handed to store_candidate.
PageCandidates == {Ann, Bob, Cy}

\* The fields of the dataclass Interview, and the keywords
\* show_interview_scheduling calls Interview(...) with.
InterviewFields ==
    {"id", "candidate_id", "job_id", "scheduled_time", "status", "notes", "created_at"}
InterviewKeywords ==
    {"id", "candidate_id", "job_id", "interviewer", "scheduled_time", "type", "notes",
     "created_at"}

\* Interview(**keywords) raises TypeError for a keyword that is no field.
InterviewRaises(keywords) == ~(keywords \subseteq InterviewFields)

\* f"{c['name']} ({c['email']})"
Label(c) == <<c.name, c.email>>

\* show_job_management, Create Job submitted with a title and a description:
\* the Job is stored.
CreateJob ==
    /\ Len(ListOf("jobs_file")) < Len(JobIds)
    /\ \E job_title \in JobTitles :
          LET job == [id |-> JobIds[Len(ListOf("jobs_file")) + 1], title |-> job_title,
                      status |-> "active"]
              stored_job == append_to_json_list(job, files.jobs_file, "jobs", TRUE, "written")
          IN  /\ files' = [files EXCEPT !.jobs_file = stored_job.file]
              /\ page' = [op |-> "create_job", job |-> job,
                          result |-> [success |-> stored_job.returned]]
    /\ UNCHANGED <<candidates, result, procs, stored>>

\* store_candidate(candidate_data), load to save.
StoreCandidateCall ==
    /\ Len(ListOf("candidates_file")) < MaxCalls
    /\ \E candidate_data \in PageCandidates :
          LET appended == append_to_json_list(candidate_data, files.candidates_file,
                                              "candidates", TRUE, "written")
          IN  /\ files' = [files EXCEPT !.candidates_file = appended.file]
              /\ page' = [op |-> "store_candidate", candidate_data |-> candidate_data,
                          result |-> [success |-> appended.returned]]
    /\ UNCHANGED <<candidates, result, procs, stored>>

\* show_interview_scheduling, Schedule Interview submitted for the candidate
\* selected: Interview(...) is called with the keywords interviewer and type,
\* raises, and the run ends there.  Were it to return, the Interview would be
\* stored (the notification that follows is not modelled).
ScheduleInterview ==
    /\ ListOf("candidates_file") # <<>>
    /\ \E selected_candidate \in { Label(ListOf("candidates_file")[i]) :
                                     i \in DOMAIN ListOf("candidates_file") } :
          LET candidates_list == ListOf("candidates_file")
              candidate_data ==
                  candidates_list[Min({ i \in DOMAIN candidates_list :
                                          Label(candidates_list[i]) = selected_candidate })]
              job_id == IF "job_id" \in DOMAIN candidate_data THEN candidate_data.job_id ELSE ""
              interview == [id |-> InterviewIds[Min({Len(ListOf("interviews_file")) + 1,
                                                     Len(InterviewIds)})],
                            candidate_id |-> candidate_data.id, job_id |-> job_id,
                            scheduled_time |-> "2026-01-05T09:00:00", status |-> "scheduled"]
          IN  IF InterviewRaises(InterviewKeywords)
              THEN /\ page' = [op |-> "schedule_interview", candidate_data |-> candidate_data,
                               candidate_id |-> candidate_data.id, job_id |-> job_id,
                               raised |-> TRUE]
                   /\ UNCHANGED files
              ELSE LET appended == append_to_json_list(interview, files.interviews_file,
                                                       "interviews", TRUE, "written")
                   IN  /\ files' = [files EXCEPT !.interviews_file = appended.file]
                       /\ page' = [op |-> "schedule_interview",
                                   candidate_data |-> candidate_data,
                                   candidate_id |-> candidate_data.id, job_id |-> job_id,
                                   raised |-> FALSE]
    /\ UNCHANGED <<candidates, result, procs, stored>>

AppInit ==
    /\ candidates = <<>>
    /\ result = NoResult
    /\ StoreUntouched

AppNext ==
    \/ CreateJob
    \/ StoreCandidateCall
    \/ ScheduleInterview

AppSpec == AppInit /\ [][AppNext]_vars

----------------------------------------------------------------------------
(* Properties of the interview-scheduling flow.                            *)

\* The ids of the dicts in a file.
IdsOf(filepath) == { ListOf(filepath)[i].id : i \in DOMAIN ListOf(filepath) }

C17_NoInterviewStored == files.interviews_file = MissingFile

\* The references the flow hands to Interview(...): the candidate id is one
\* of the store.
C17_CandidateIdFromStore ==
    page.op = "schedule_interview" => page.candidate_id \in IdsOf("candidates_file")

\* A submission for a candidate dict as Candidate.to_dict() makes it, with
\* jobs in the store: the job id handed to Interview(...) is '', the id of no
\* job.
C17_EmptyJobIdReached ==
    /\ page.op = "schedule_interview"
    /\ page.candidate_data = Ann
    /\ IdsOf("jobs_file") # {}
    /\ page.job_id = ""
    /\ page.job_id \notin IdsOf("jobs_file")

----------------------------------------------------------------------------
(* Regular expressions as the module re matches them: by backtracking,     *)
(* trying the alternatives in order and the repetitions longest first      *)
(* (shortest first when lazy).  A pattern is a tree; a match attempt at a  *)
(* position gives the ways to match in the order re tries them, each with  *)
(* the position after the match and the spans of the groups.               *)

Chars(S) == [k |-> "chars", chars |-> S]
AnyChar == [k |-> "any"]
WordBoundary == [k |-> "b"]
LineStart == [k |-> "bol"]
LineEnd == [k |-> "eol"]
Cat(parts) == [k |-> "cat", parts |-> parts]
Alt(parts) == [k |-> "alt", parts |-> parts]
\* of{min,max}, of{min,}, of*, of+, of? and the lazy of*?
Rep(of, min, max) ==
    [k |-> "rep", of |-> of, min |-> min, limited |-> TRUE, max |-> max, greedy |-> TRUE]
AtLeast(of, min) ==
    [k |-> "rep", of |-> of, min |-> min, limited |-> FALSE, max |-> min, greedy |-> TRUE]
Star(of) == AtLeast(of, 0)
Plus(of) == AtLeast(of, 1)
Opt(of) == Rep(of, 0, 1)
LazyStar(of) ==
    [k |-> "rep", of |-> of, min |-> 0, limited |-> FALSE, max |-> 0, greedy |-> FALSE]
Group(n, of) == [k |-> "group", n |-> n, of |-> of]
Lit(s) == Cat([i \in 1..Len(s) |-> Chars({s[i]})])

SetOf(s) == { s[i] : i \in DOMAIN s }
Upper == SetOf(UpperChars)
LowerSet == SetOf(LowerChars)
Digit == SetOf(DigitChars)
\* The character U+2013, which no string of this language can hold.
EnDash == "en dash"

\* \d and \s, and the characters of \w.
ReDigit == Chars(Digit)
ReSpace == Chars(WhiteChars)
WordChars == Upper \cup LowerSet \cup Digit \cup {"_"}

UpperChar(c) ==
    IF c \in LowerSet THEN UpperChars[CHOOSE i \in 1..26 : LowerChars[i] = c] ELSE c

\* One character against a set, under re.IGNORECASE or not.
CharMatches(c, chars, ignorecase) ==
    \/ c \in chars
    \/ ignorecase /\ (LowerChar(c) \in chars \/ UpperChar(c) \in chars)

IsWord(text, i) == i \in 1..Len(text) /\ text[i] \in WordChars

\* The groups of a match not yet made.
NoGroups == <<None, None>>

RECURSIVE Matches(_, _, _, _, _)
RECURSIVE MatchesCat(_, _, _, _)
RECURSIVE MatchesEach(_, _, _, _)
RECURSIVE MatchesAlt(_, _, _, _, _)
RECURSIVE MatchesRep(_, _, _, _, _, _)
RECURSIVE MatchesRepEach(_, _, _, _, _)

\* The matches of pattern at position i of text, in the order re tries them.
Matches(pattern, text, i, groups, ignorecase) ==
    LET here == <<[end |-> i, groups |-> groups]>>
        next == <<[end |-> i + 1, groups |-> groups]>>
    IN  CASE pattern.k = "chars" ->
                 IF i <= Len(text) /\ CharMatches(text[i], pattern.chars, ignorecase)
                 THEN next ELSE <<>>
          [] pattern.k = "any" ->
                 IF i <= Len(text) /\ text[i] # "\n" THEN next ELSE <<>>
          [] pattern.k = "b" ->
                 IF IsWord(text, i - 1) # IsWord(text, i) THEN here ELSE <<>>
          [] pattern.k = "bol" -> IF i = 1 THEN here ELSE <<>>
          [] pattern.k = "eol" ->
                 IF i = Len(text) + 1 \/ (i = Len(text) /\ text[i] = "\n")
                 THEN here ELSE <<>>
          [] pattern.k = "cat" -> MatchesCat(pattern.parts, text, here, ignorecase)
          [] pattern.k = "alt" -> MatchesAlt(pattern.parts, text, i, groups, ignorecase)
          [] pattern.k = "rep" -> MatchesRep(pattern, text, i, groups, ignorecase, 0)
          [] pattern.k = "group" ->
                 LET inner == Matches(pattern.of, text, i, groups, ignorecase)
                 IN  [j \in DOMAIN inner |->
                         [end |-> inner[j].end,
                          groups |-> [inner[j].groups EXCEPT
                                         ![pattern.n] = Some(<<i, inner[j].end>>)]]]

\* pattern tried after each of the matches `from`.
MatchesEach(pattern, text, from, ignorecase) ==
    IF from = <<>> THEN <<>>
    ELSE Matches(pattern, text, Head(from).end, Head(from).groups, ignorecase)
             \o MatchesEach(pattern, text, Tail(from), ignorecase)

MatchesCat(parts, text, from, ignorecase) ==
    IF parts = <<>> \/ from = <<>> THEN from
    ELSE MatchesCat(Tail(parts), text, MatchesEach(Head(parts), text, from, ignorecase),
                    ignorecase)

MatchesAlt(parts, text, i, groups, ignorecase) ==
    IF parts = <<>> THEN <<>>
    ELSE Matches(Head(parts), text, i, groups, ignorecase)
             \o MatchesAlt(Tail(parts), text, i, groups, ignorecase)

\* A repetition that has matched count times.
MatchesRep(pattern, text, i, groups, ignorecase, count) ==
    LET here == IF count >= pattern.min THEN <<[end |-> i, groups |-> groups]>> ELSE <<>>
        once == IF pattern.limited /\ count >= pattern.max THEN <<>>
                ELSE SelectSeq(Matches(pattern.of, text, i, groups, ignorecase),
                               LAMBDA m : m.end > i)
        more == MatchesRepEach(pattern, text, once, ignorecase, count + 1)
    IN  IF pattern.greedy THEN more \o here ELSE here \o more

MatchesRepEach(pattern, text, from, ignorecase, count) ==
    IF from = <<>> THEN <<>>
    ELSE MatchesRep(pattern, text, Head(from).end, Head(from).groups, ignorecase, count)
             \o MatchesRepEach(pattern, text, Tail(from), ignorecase, count)

\* text[i:j], positions counted from 1, j excluded.
Slice(text, i, j) == [n \in 1..(j - i) |-> text[i + n - 1]]

\* The string of a group of a match: '' for a group that took no part.
GroupOf(text, m, n) ==
    IF m.groups[n].none THEN <<>> ELSE Slice(text, m.groups[n].val[1], m.groups[n].val[2])

\* re.match(pattern, text): a match at the start of text, or none.
re_match(pattern, text, ignorecase) == Matches(pattern, text, 1, NoGroups, ignorecase) # <<>>

RECURSIVE GroupCount(_)
RECURSIVE GroupCountOf(_)
\* The number of groups of a pattern.
GroupCount(pattern) ==
    CASE pattern.k = "group" -> Max({pattern.n, GroupCount(pattern.of)})
      [] pattern.k = "rep" -> GroupCount(pattern.of)
      [] pattern.k \in {"cat", "alt"} -> GroupCountOf(pattern.parts)
      [] OTHER -> 0

GroupCountOf(parts) ==
    IF parts = <<>> THEN 0 ELSE Max({GroupCount(Head(parts)), GroupCountOf(Tail(parts))})

RECURSIVE FindFrom(_, _, _, _, _)
\* The items of re.findall from position i on: the whole match for a pattern
\* without group, the group for one group, the tuple of both for two.
FindFrom(pattern, ngroups, text, i, ignorecase) ==
    IF i > Len(text) + 1 THEN <<>>
    ELSE LET found == Matches(pattern, text, i, NoGroups, ignorecase)
         IN  IF found = <<>> THEN FindFrom(pattern, ngroups, text, i + 1, ignorecase)
             ELSE LET m == found[1]
                      item == CASE ngroups = 0 -> Slice(text, i, m.end)
                                [] ngroups = 1 -> GroupOf(text, m, 1)
                                [] ngroups = 2 -> <<GroupOf(text, m, 1), GroupOf(text, m, 2)>>
                  IN  <<item>> \o FindFrom(pattern, ngroups, text,
                                           IF m.end > i THEN m.end ELSE i + 1, ignorecase)

findall(pattern, text, ignorecase) ==
    FindFrom(pattern, GroupCount(pattern), text, 1, ignorecase)

----------------------------------------------------------------------------
(* ResumeParser (src/src/tools/resume_parser.py): the extractors.          *)

\* str.strip()
Strip(s) ==
    LET kept == { i \in DOMAIN s : s[i] \notin WhiteChars }
    IN  IF kept = {} THEN <<>> ELSE Slice(s, Min(kept), Max(kept) + 1)

\* str.split(sep) for a separator of one character.
Split(s, sep) ==
    LET cuts == {0, Len(s) + 1} \cup { i \in DOMAIN s : s[i] = sep }
        Cut(n) == CHOOSE c \in cuts : Cardinality({ d \in cuts : d < c }) = n - 1
    IN  [n \in 1..(Cardinality(cuts) - 1) |-> Slice(s, Cut(n) + 1, Cut(n + 1))]

RECURSIVE Join(_, _)
\* sep.join(list)
Join(list, sep) ==
    IF list = <<>> THEN <<>>
    ELSE IF Len(list) = 1 THEN list[1]
    ELSE list[1] \o sep \o Join(Tail(list), sep)

RECURSIVE Str(_)
\* str(n) for an int n >= 0
Str(n) == IF n < 10 THEN <<DigitChars[n + 1]>> ELSE Str(n \div 10) \o <<DigitChars[(n % 10) + 1]>>

RECURSIVE FirstFound(_, _, _)
\* for pattern in patterns: the first item of the first findall that finds
\* any, with its pattern.
FirstFound(patterns, text, ignorecase) ==
    IF patterns = <<>> THEN None
    ELSE LET matches == findall(Head(patterns), text, ignorecase)
         IN  IF matches # <<>> THEN Some([item |-> matches[1], pattern |-> Head(patterns)])
             ELSE FirstFound(Tail(patterns), text, ignorecase)

\* ResumeParser.skills_keywords

skills_keywords ==
    <<
      <<"p", "y", "t", "h", "o", "n">>,
      <<"j", "a", "v", "a">>,
      <<"j", "a", "v", "a", "s", "c", "r", "i", "p", "t">>,
      <<"c", "+", "+">>,
      <<"c", "#">>,
      <<"p", "h", "p">>,
      <<"r", "u", "b", "y">>,
      <<"g", "o">>,
      <<"r", "u", "s", "t">>,
      <<"r", "e", "a", "c", "t">>,
      <<"a", "n", "g", "u", "l", "a", "r">>,
      <<"v", "u", "e">>,
      <<"h", "t", "m", "l">>,
      <<"c", "s", "s">>,
      <<"n", "o", "d", "e", ".", "j", "s">>,
      <<"e", "x", "p", "r", "e", "s", "s">>,
      <<"d", "j", "a", "n", "g", "o">>,
      <<"f", "l", "a", "s", "k">>,
      <<"s", "q", "l">>,
      <<"m", "y", "s", "q", "l">>,
      <<"p", "o", "s", "t", "g", "r", "e", "s", "q", "l">>,
      <<"m", "o", "n", "g", "o", "d", "b">>,
      <<"r", "e", "d", "i", "s">>,
      <<"o", "r", "a", "c", "l", "e">>,
      <<"a", "w", "s">>,
      <<"a", "z", "u", "r", "e">>,
      <<"g", "c", "p">>,
      <<"d", "o", "c", "k", "e", "r">>,
      <<"k", "u", "b", "e", "r", "n", "e", "t", "e", "s">>,
      <<"j", "e", "n", "k", "i", "n", "s">>,
      <<"c", "i", "/", "c", "d">>,
      <<"m", "a", "c", "h", "i", "n", "e", " ", "l", "e", "a", "r", "n",
          "i", "n", "g">>,
      <<"d", "e", "e", "p", " ", "l", "e", "a", "r", "n", "i", "n", "g">>,
      <<"t", "e", "n", "s", "o", "r", "f", "l", "o", "w">>,
      <<"p", "y", "t", "o", "r", "c", "h">>,
      <<"p", "a", "n", "d", "a", "s">>,
      <<"n", "u", "m", "p", "y">>,
      <<"g", "i", "t">>,
      <<"l", "i", "n", "u", "x">>,
      <<"a", "g", "i", "l", "e">>,
      <<"s", "c", "r", "u", "m">>,
      <<"r", "e", "s", "t", " ", "a", "p", "i">>,
      <<"m", "i", "c", "r", "o", "s", "e", "r", "v", "i", "c", "e", "s">>
    >>

\* The patterns of the extractors.

email_pattern ==
    Cat(<<WordBoundary,
        Plus(Chars(Upper \cup LowerSet \cup Digit \cup {".", "_",
        "%", "+", "-"})), Chars({"@"}),
        Plus(Chars(Upper \cup LowerSet \cup Digit \cup {".", "-"})),
        Chars({"."}), AtLeast(Chars(Upper \cup LowerSet \cup {"|"}), 2), WordBoundary>>)

name_patterns ==
    <<
      Cat(<<LineStart, Chars(Upper), Plus(Chars(LowerSet)), Plus(ReSpace),
          Chars(Upper), Plus(Chars(LowerSet)), LineEnd>>),
      Cat(<<LineStart, Chars(Upper), Plus(Chars(LowerSet)), Plus(ReSpace),
          Chars(Upper), Chars({"."}), Plus(ReSpace), Chars(Upper),
          Plus(Chars(LowerSet)), LineEnd>>),
      Cat(<<LineStart, Chars(Upper), Plus(Chars(LowerSet)), Plus(ReSpace),
          Chars(Upper), Plus(Chars(LowerSet)), Plus(ReSpace),
          Chars(Upper), Plus(Chars(LowerSet)), LineEnd>>),
      Cat(<<LineStart, Chars(Upper), Plus(Chars(Upper \cup WhiteChars)),
          LineEnd>>)
    >>

contact_patterns ==
    <<
      Cat(<<Lit(<<"n", "a", "m", "e">>),
          Plus(Chars(WhiteChars \cup {":"})), Group(1,
          Cat(<<Chars(Upper), Plus(Chars(LowerSet)),
          Star(Cat(<<Plus(ReSpace), Chars(Upper),
          Plus(Chars(LowerSet))>>))>>))>>),
      Cat(<<Group(1, Cat(<<Chars(Upper), Plus(Chars(LowerSet)),
          Star(Cat(<<Plus(ReSpace), Chars(Upper),
          Plus(Chars(LowerSet))>>))>>)), Star(ReSpace), Chars({"-",
          "|"}), Star(ReSpace), Lit(<<"r", "e", "s", "u", "m",
          "e">>)>>),
      Cat(<<Group(1, Cat(<<Chars(Upper), Plus(Chars(LowerSet)),
          Star(Cat(<<Plus(ReSpace), Chars(Upper),
          Plus(Chars(LowerSet))>>))>>)), Star(ReSpace), Chars({"-",
          "|"}), Star(ReSpace), Lit(<<"c", "v">>)>>)
    >>

phone_patterns ==
    <<
      Cat(<<WordBoundary, Rep(ReDigit, 3, 3), Chars({"-"}), Rep(ReDigit,
          3, 3), Chars({"-"}), Rep(ReDigit, 4, 4), WordBoundary>>),
      Cat(<<WordBoundary, Rep(ReDigit, 3, 3), Chars({"."}), Rep(ReDigit,
          3, 3), Chars({"."}), Rep(ReDigit, 4, 4), WordBoundary>>),
      Cat(<<WordBoundary, Rep(ReDigit, 3, 3), ReSpace, Rep(ReDigit, 3, 3),
          ReSpace, Rep(ReDigit, 4, 4), WordBoundary>>),
      Cat(<<WordBoundary, Chars({"("}), Rep(ReDigit, 3, 3), Chars({")"}),
          ReSpace, Rep(ReDigit, 3, 3), Chars({"-"}), Rep(ReDigit, 4,
          4), WordBoundary>>),
      Cat(<<WordBoundary, Chars({"+"}), Rep(ReDigit, 1, 3), ReSpace,
          Rep(ReDigit, 3, 3), Chars({"-"}), Rep(ReDigit, 3, 3),
          Chars({"-"}), Rep(ReDigit, 4, 4), WordBoundary>>),
      Cat(<<WordBoundary, Chars({"+"}), Rep(ReDigit, 1, 3), ReSpace,
          Rep(ReDigit, 3, 3), ReSpace, Rep(ReDigit, 3, 3), ReSpace,
          Rep(ReDigit, 4, 4), WordBoundary>>),
      Cat(<<WordBoundary, Rep(ReDigit, 10, 10), WordBoundary>>),
      Cat(<<WordBoundary, Rep(ReDigit, 5, 5), ReSpace, Rep(ReDigit, 5, 5),
          WordBoundary>>),
      Cat(<<WordBoundary, Rep(ReDigit, 3, 3), ReSpace, Rep(ReDigit, 3, 3),
          ReSpace, Rep(ReDigit, 4, 4), WordBoundary>>),
      Cat(<<WordBoundary, Rep(ReDigit, 2, 2), ReSpace, Rep(ReDigit, 4, 4),
          ReSpace, Rep(ReDigit, 4, 4), WordBoundary>>),
      Cat(<<WordBoundary, Rep(ReDigit, 4, 4), ReSpace, Rep(ReDigit, 3, 3),
          ReSpace, Rep(ReDigit, 3, 3), WordBoundary>>),
      Cat(<<WordBoundary, Lit(<<"+", "9", "1">>), Opt(ReSpace),
          Rep(ReDigit, 10, 10), WordBoundary>>),
      Cat(<<WordBoundary, Lit(<<"+", "1">>), Opt(ReSpace), Rep(ReDigit,
          10, 10), WordBoundary>>),
      Cat(<<WordBoundary, Lit(<<"+", "9", "1">>), Opt(ReSpace),
          Rep(ReDigit, 5, 5), ReSpace, Rep(ReDigit, 5, 5),
          WordBoundary>>),
      Cat(<<WordBoundary, Lit(<<"+", "9", "1">>), Opt(ReSpace),
          Rep(ReDigit, 3, 3), ReSpace, Rep(ReDigit, 3, 3), ReSpace,
          Rep(ReDigit, 4, 4), WordBoundary>>),
      Cat(<<WordBoundary, Rep(ReDigit, 3, 3), Chars(WhiteChars \cup {"-",
          "."}), Rep(ReDigit, 3, 3), Chars(WhiteChars \cup {"-",
          "."}), Rep(ReDigit, 4, 4), WordBoundary>>),
      Cat(<<WordBoundary, Rep(ReDigit, 3, 3), Chars(WhiteChars \cup {"-",
          "."}), Rep(ReDigit, 4, 4), Chars(WhiteChars \cup {"-",
          "."}), Rep(ReDigit, 3, 3), WordBoundary>>)
    >>

digit_pattern ==
    Cat(<<WordBoundary, Rep(ReDigit, 10, 15), WordBoundary>>)

exp_patterns ==
    <<
      Cat(<<Group(1, Plus(ReDigit)), Star(ReSpace), Lit(<<"y", "e", "a",
          "r">>), Opt(Chars({"s"})), Star(ReSpace), Lit(<<"o",
          "f">>), Star(ReSpace), Lit(<<"e", "x", "p", "e", "r", "i",
          "e", "n", "c", "e">>)>>),
      Cat(<<Group(1, Plus(ReDigit)), Star(ReSpace), Lit(<<"y", "e", "a",
          "r">>), Opt(Chars({"s"})), Star(ReSpace), Lit(<<"e", "x",
          "p", "e", "r", "i", "e", "n", "c", "e">>)>>),
      Cat(<<Lit(<<"e", "x", "p", "e", "r", "i", "e", "n", "c", "e",
          ":">>), Star(ReSpace), Group(1, Plus(ReDigit)),
          Star(ReSpace), Lit(<<"y", "e", "a", "r">>),
          Opt(Chars({"s"}))>>),
      Cat(<<Group(1, Plus(ReDigit)), Chars({"+"}), Star(ReSpace),
          Lit(<<"y", "e", "a", "r">>), Opt(Chars({"s"}))>>),
      Cat(<<Group(1, Plus(ReDigit)), Star(ReSpace), Lit(<<"y", "e", "a",
          "r">>), Opt(Chars({"s"})), Star(ReSpace), Lit(<<"i",
          "n">>), Star(ReSpace), Lit(<<"t", "h", "e">>),
          Star(ReSpace), Lit(<<"f", "i", "e", "l", "d">>)>>),
      Cat(<<Group(1, Plus(ReDigit)), Star(ReSpace), Lit(<<"y", "e", "a",
          "r">>), Opt(Chars({"s"})), Star(ReSpace), Lit(<<"o",
          "f">>), Star(ReSpace), Lit(<<"w", "o", "r", "k">>)>>),
      Cat(<<Group(1, Plus(ReDigit)), Star(ReSpace), Lit(<<"y", "e", "a",
          "r">>), Opt(Chars({"s"})), Star(ReSpace), Lit(<<"p", "r",
          "o", "f", "e", "s", "s", "i", "o", "n", "a", "l">>)>>),
      Cat(<<Group(1, Plus(ReDigit)), Star(ReSpace), Lit(<<"y", "e", "a",
          "r">>), Opt(Chars({"s"})), Star(ReSpace), Lit(<<"i", "n",
          "d", "u", "s", "t", "r", "y">>)>>),
      Cat(<<Group(1, Plus(ReDigit)), Star(ReSpace), Lit(<<"y", "e", "a",
          "r">>), Opt(Chars({"s"})), Star(ReSpace), Group(2,
          Plus(ReDigit)), Star(ReSpace), Lit(<<"m", "o", "n", "t",
          "h">>), Opt(Chars({"s"})), Star(ReSpace), Lit(<<"e", "x",
          "p", "e", "r", "i", "e", "n", "c", "e">>)>>),
      Cat(<<Group(1, Plus(ReDigit)), Star(ReSpace), Lit(<<"y", "e", "a",
          "r">>), Opt(Chars({"s"})), Star(ReSpace), Group(2,
          Plus(ReDigit)), Star(ReSpace), Lit(<<"m", "o", "n", "t",
          "h">>), Opt(Chars({"s"}))>>),
      Cat(<<Lit(<<"e", "x", "p", "e", "r", "i", "e", "n", "c", "e">>),
          LazyStar(AnyChar), Group(1, Plus(ReDigit)),
          Star(ReSpace), Lit(<<"y", "e", "a", "r">>),
          Opt(Chars({"s"}))>>),
      Cat(<<Group(1, Plus(ReDigit)), Star(ReSpace), Lit(<<"y", "e", "a",
          "r">>), Opt(Chars({"s"})), LazyStar(AnyChar),
          Lit(<<"e", "x", "p", "e", "r", "i", "e", "n", "c",
          "e">>)>>),
      Cat(<<Lit(<<"w", "o", "r", "k", "e", "d">>), Star(ReSpace),
          Lit(<<"f", "o", "r">>), Star(ReSpace), Group(1,
          Plus(ReDigit)), Star(ReSpace), Lit(<<"y", "e", "a",
          "r">>), Opt(Chars({"s"}))>>),
      Cat(<<Group(1, Plus(ReDigit)), Star(ReSpace), Lit(<<"y", "e", "a",
          "r">>), Opt(Chars({"s"})), Star(ReSpace), Lit(<<"o",
          "f">>), Star(ReSpace), Lit(<<"w", "o", "r", "k">>),
          Star(ReSpace), Lit(<<"h", "i", "s", "t", "o", "r",
          "y">>)>>),
      Cat(<<Group(1, Plus(ReDigit)), Star(ReSpace), Lit(<<"y", "e", "a",
          "r">>), Opt(Chars({"s"})), Star(ReSpace), Lit(<<"i", "n",
          "t", "e", "r", "n", "s", "h", "i", "p">>)>>),
      Cat(<<Group(1, Plus(ReDigit)), Star(ReSpace), Lit(<<"y", "e", "a",
          "r">>), Opt(Chars({"s"})), Star(ReSpace), Lit(<<"p", "a",
          "r", "t">>), Opt(AnyChar), Lit(<<"t", "i", "m", "e">>)>>),
      Cat(<<Group(1, Plus(ReDigit)), Star(ReSpace), Lit(<<"y", "e", "a",
          "r">>), Opt(Chars({"s"})), Star(ReSpace), Lit(<<"p", "r",
          "o", "j", "e", "c", "t">>), Star(ReSpace), Lit(<<"e", "x",
          "p", "e", "r", "i", "e", "n", "c", "e">>)>>)
    >>

work_sections ==
    <<
      <<"w", "o", "r", "k", " ", "e", "x", "p", "e", "r", "i", "e", "n",
          "c", "e">>,
      <<"e", "m", "p", "l", "o", "y", "m", "e", "n", "t", " ", "h", "i",
          "s", "t", "o", "r", "y">>,
      <<"p", "r", "o", "f", "e", "s", "s", "i", "o", "n", "a", "l", " ",
          "e", "x", "p", "e", "r", "i", "e", "n", "c", "e">>,
      <<"c", "a", "r", "e", "e", "r", " ", "h", "i", "s", "t", "o", "r",
          "y">>,
      <<"w", "o", "r", "k", " ", "h", "i", "s", "t", "o", "r", "y">>,
      <<"e", "m", "p", "l", "o", "y", "m", "e", "n", "t">>
    >>

date_patterns ==
    <<
      Cat(<<Group(1, Rep(ReDigit, 4, 4)), Star(ReSpace), Chars({"-",
          EnDash}), Star(ReSpace), Group(2, Alt(<<Rep(ReDigit, 4, 4),
          Cat(<<WordBoundary, Lit(<<"p", "r", "e", "s", "e", "n",
          "t">>), WordBoundary>>), Cat(<<WordBoundary, Lit(<<"c",
          "u", "r", "r", "e", "n", "t">>), WordBoundary>>)>>))>>),
      Cat(<<Group(1, Rep(ReDigit, 4, 4)), Star(ReSpace), Lit(<<"t",
          "o">>), Star(ReSpace), Group(2, Alt(<<Rep(ReDigit, 4, 4),
          Cat(<<WordBoundary, Lit(<<"p", "r", "e", "s", "e", "n",
          "t">>), WordBoundary>>), Cat(<<WordBoundary, Lit(<<"c",
          "u", "r", "r", "e", "n", "t">>), WordBoundary>>)>>))>>),
      Cat(<<Group(1, Rep(ReDigit, 4, 4)), Star(ReSpace), Chars({"-"}),
          Star(ReSpace), Group(2, Alt(<<Rep(ReDigit, 4, 4),
          Cat(<<WordBoundary, Lit(<<"p", "r", "e", "s", "e", "n",
          "t">>), WordBoundary>>), Cat(<<WordBoundary, Lit(<<"c",
          "u", "r", "r", "e", "n", "t">>), WordBoundary>>)>>))>>)
    >>

\* experience_keywords, in the order of the dict.
experience_keywords ==
    <<
      [keyword |-> <<"e", "n", "t", "r", "y", " ", "l", "e", "v", "e", "l">>,
       experience |-> <<"0", "-", "1", " ", "y", "e", "a", "r", "s">>],
      [keyword |-> <<"j", "u", "n", "i", "o", "r">>,
       experience |-> <<"1", "-", "3", " ", "y", "e", "a", "r", "s">>],
      [keyword |-> <<"m", "i", "d", " ", "l", "e", "v", "e", "l">>,
       experience |-> <<"3", "-", "5", " ", "y", "e", "a", "r", "s">>],
      [keyword |-> <<"s", "e", "n", "i", "o", "r">>,
       experience |-> <<"5", "-", "1", "0", " ", "y", "e", "a", "r", "s">>],
      [keyword |-> <<"l", "e", "a", "d">>,
       experience |-> <<"5", "-", "1", "0", " ", "y", "e", "a", "r", "s">>],
      [keyword |-> <<"p", "r", "i", "n", "c", "i", "p", "a", "l">>,
       experience |-> <<"1", "0", "+", " ", "y", "e", "a", "r", "s">>],
      [keyword |-> <<"e", "x", "p", "e", "r", "t">>,
       experience |-> <<"1", "0", "+", " ", "y", "e", "a", "r", "s">>],
      [keyword |-> <<"f", "r", "e", "s", "h", "e", "r">>,
       experience |-> <<"0", "-", "1", " ", "y", "e", "a", "r", "s">>],
      [keyword |-> <<"n", "e", "w", " ", "g", "r", "a", "d", "u", "a", "t", "e">>,
       experience |-> <<"0", "-", "1", " ", "y", "e", "a", "r", "s">>],
      [keyword |-> <<"s", "t", "u", "d", "e", "n", "t">>,
       experience |-> <<"0", "-", "1", " ", "y", "e", "a", "r", "s">>],
      [keyword |-> <<"u", "n", "d", "e", "r", "g", "r", "a", "d", "u", "a", "t", "e">>,
       experience |-> <<"0", "-", "1", " ", "y", "e", "a", "r", "s">>],
      [keyword |-> <<"b", "a", "c", "h", "e", "l", "o", "r">>,
       experience |-> <<"0", "-", "1", " ", "y", "e", "a", "r", "s">>],
      [keyword |-> <<"f", "i", "n", "a", "l", " ", "y", "e", "a", "r">>,
       experience |-> <<"0", "-", "1", " ", "y", "e", "a", "r", "s">>],
      [keyword |-> <<"g", "r", "a", "d", "u", "a", "t", "i", "n", "g">>,
       experience |-> <<"0", "-", "1", " ", "y", "e", "a", "r", "s">>],
      [keyword |-> <<"i", "n", "t", "e", "r", "n", "s", "h", "i", "p">>,
       experience |-> <<"0", "-", "1", " ", "y", "e", "a", "r", "s">>],
      [keyword |-> <<"p", "r", "o", "j", "e", "c", "t">>,
       experience |-> <<"0", "-", "1", " ", "y", "e", "a", "r", "s">>]
    >>

\* edu_keywords of extract_education.
parser_edu_keywords ==
    <<
      <<"b", "a", "c", "h", "e", "l", "o", "r">>,
      <<"m", "a", "s", "t", "e", "r">>,
      <<"p", "h", "d">>,
      <<"d", "e", "g", "r", "e", "e">>,
      <<"u", "n", "i", "v", "e", "r", "s", "i", "t", "y">>,
      <<"c", "o", "l", "l", "e", "g", "e">>,
      <<"b", ".", "s", ".">>,
      <<"b", ".", "a", ".">>,
      <<"m", ".", "s", ".">>,
      <<"m", ".", "a", ".">>,
      <<"m", "b", "a">>,
      <<"p", "h", ".", "d", ".">>
    >>

extract_email(text) ==
    LET emails == findall(email_pattern, text, FALSE)
    IN  IF emails # <<>> THEN Some(emails[1]) ELSE None

extract_name(text) ==
    LET lines == Split(text, "\n")
        named == { i \in 1..Min({10, Len(lines)}) :
                     /\ Len(Strip(lines[i])) > 0
                     /\ Len(Strip(lines[i])) < 50
                     /\ \E p \in DOMAIN name_patterns :
                           re_match(name_patterns[p], Strip(lines[i]), FALSE) }
        contact == FirstFound(contact_patterns, text, TRUE)
    IN  IF named # {} THEN Some(Strip(lines[Min(named)]))
        ELSE IF ~contact.none THEN Some(Strip(contact.val.item))
        ELSE None

extract_phone(text) ==
    LET phones == FirstFound(phone_patterns, text, FALSE)
        digits == findall(digit_pattern, text, FALSE)
        plausible == { i \in DOMAIN digits : Len(digits[i]) \in {10, 11} }
    IN  IF ~phones.none THEN Some(phones.val.item)
        ELSE IF plausible # {} THEN Some(digits[Min(plausible)])
        ELSE None

\* The lists a set of strings can be listed as.
Orderings(strings) ==
    { list \in [1..Cardinality(strings) -> strings] :
        \A i, j \in DOMAIN list : list[i] = list[j] => i = j }

\* extract_skills returns list(set(found_skills)), whose order depends on the
\* hash seed of the process: every list it can return.
extract_skills(text) ==
    Orderings({ skills_keywords[i] : i \in { j \in DOMAIN skills_keywords :
                    Contains(Lower(text), Lower(skills_keywords[j])) } })

\* The two values `years, months = item` unpacks: the groups of a tuple, the
\* characters of a string.
Unpacked(item, pattern) ==
    IF GroupCount(pattern) = 2 THEN item ELSE <<<<item[1]>>, <<item[2]>>>>

\* extract_experience, in a year this_year (datetime.now().year).
extract_experience(text, this_year) ==
    LET found == FirstFound(exp_patterns, text, TRUE)
        in_section == \E i \in DOMAIN work_sections :
                          Contains(Lower(text), Lower(work_sections[i]))
        date_matches == findall(date_patterns[1], text, TRUE)
                            \o findall(date_patterns[2], text, TRUE)
                            \o findall(date_patterns[3], text, TRUE)
        Years(range) ==
            (IF Lower(range[2]) \in {<<"p", "r", "e", "s", "e", "n", "t">>, <<"c", "u", "r", "r", "e", "n", "t">>}
             THEN this_year ELSE ParseInt(range[2])) - ParseInt(range[1])
        reasonable == { i \in DOMAIN date_matches : Years(date_matches[i]) \in 0..50 }
        keywords == { i \in DOMAIN experience_keywords :
                        Contains(Lower(text), experience_keywords[i].keyword) }
    IN  IF ~found.none
        THEN IF Len(found.val.item) = 2
             THEN Some(Unpacked(found.val.item, found.val.pattern)[1] \o <<" ", "y", "e", "a", "r", "s", " ">>
                           \o Unpacked(found.val.item, found.val.pattern)[2] \o <<" ", "m", "o", "n", "t", "h", "s">>)
             ELSE Some(found.val.item \o <<" ", "y", "e", "a", "r", "s">>)
        ELSE IF in_section /\ reasonable # {}
        THEN Some(Str(Years(date_matches[Min(reasonable)])) \o <<" ", "y", "e", "a", "r", "s">>)
        ELSE IF keywords # {} THEN Some(experience_keywords[Min(keywords)].experience)
        ELSE None

extract_education(text) ==
    LET sentences == Split(text, ".")
        With(keyword) == { i \in DOMAIN sentences : Contains(Lower(sentences[i]), keyword) }
        found == SelectSeq(parser_edu_keywords,
                           LAMBDA keyword : Contains(Lower(text), keyword) /\ With(keyword) # {})
        education_info == [n \in DOMAIN found |-> Strip(sentences[Min(With(found[n]))])]
    IN  IF education_info # <<>> THEN Some(Join(education_info, <<";", " ">>)) ELSE None

\* parse_pdf of a document: the text PyMuPDF extracts or, when that raises,
\* the text pdfplumber extracts, stripped; '' when both raise.
parse_pdf(document) ==
    IF ~document.fitz.none THEN Strip(document.fitz.val)
    ELSE IF ~document.pdfplumber.none THEN Strip(document.pdfplumber.val)
    ELSE <<>>

NoTextContent == [error |-> "No text content found"]

\* os.path.exists(path) and the document at the path, among the documents
\* of the file system.
Exists(documents, path) == \E document \in documents : document.path = path
DocumentAt(documents, path) == CHOOSE document \in documents : document.path = path

\* A parse_resume without the test `if not text`: a record of what the
\* extractors find in an empty text.
ParseResumeUnchecked(file_path, text, documents, this_year) ==
    LET read == IF Truthy(file_path) /\ Exists(documents, file_path.val)
                THEN parse_pdf(DocumentAt(documents, file_path.val))
                ELSE IF text.none THEN <<>> ELSE text.val
    IN  { [name |-> extract_name(read),
           email |-> extract_email(read),
           phone |-> extract_phone(read),
           skills |-> skills,
           experience |-> extract_experience(read, this_year),
           education |-> extract_education(read),
           raw_text |-> read] : skills \in extract_skills(read) }

\* parse_resume(file_path, text) over the documents of the file system:
\* every dict it can return.
parse_resume(file_path, text, documents, this_year) ==
    LET read == IF Truthy(file_path) /\ Exists(documents, file_path.val)
                THEN Some(parse_pdf(DocumentAt(documents, file_path.val)))
                ELSE text
    IN  IF ~Truthy(read) THEN {NoTextContent}
        ELSE { [name |-> extract_name(read.val),
                email |-> extract_email(read.val),
                phone |-> extract_phone(read.val),
                skills |-> skills,
                experience |-> extract_experience(read.val, this_year),
                education |-> extract_education(read.val),
                raw_text |-> read.val] : skills \in extract_skills(read.val) }

----------------------------------------------------------------------------
(* ResumeBot.process_resume (src/src/agents/resume_bot.py).                *)

\* dict.get(key, default)
Get(dict, key, default) == IF key \in DOMAIN dict THEN dict[key] ELSE default

\* The Candidate.to_dict() process_resume builds from parsed_data (created_at,
\* the time of the call, is left out).
CandidateOf(resume_data, parsed_data, candidate_id) ==
    [id |-> candidate_id,
     name |-> Get(resume_data, "name", <<"U", "n", "k", "n", "o", "w", "n">>),
     email |-> Get(parsed_data, "email", Some(<<>>)),
     phone |-> Get(parsed_data, "phone", None),
     skills |-> Some(Get(parsed_data, "skills", <<>>)),
     experience |-> Get(parsed_data, "experience", None),
     education |-> Get(parsed_data, "education", None),
     resume_path |-> Get(resume_data, "file_path", None),
     status |-> "new"]

\* The dict process_resume returns after parsing.
Processed(resume_data, parsed_data, candidate_id) ==
    [candidate |-> CandidateOf(resume_data, parsed_data, candidate_id),
     parsed_data |-> parsed_data,
     success |-> TRUE]

NoResumeContent == [error |-> "No resume content provided"]

\* process_resume(resume_data), generate_id() giving candidate_id: every dict
\* it can return.  With strings under file_path, text and name nothing in it
\* raises.
process_resume(resume_data, documents, this_year, candidate_id) ==
    IF "file_path" \in DOMAIN resume_data
    THEN { Processed(resume_data, parsed_data, candidate_id) :
             parsed_data \in parse_resume(resume_data.file_path, None, documents, this_year) }
    ELSE IF "text" \in DOMAIN resume_data
    THEN { Processed(resume_data, parsed_data, candidate_id) :
             parsed_data \in parse_resume(None, resume_data.text, documents, this_year) }
    ELSE {NoResumeContent}

----------------------------------------------------------------------------
(* Inputs: resume texts, documents and resume_data dicts.                  *)

ResumeOfJohn ==
    <<"J", "o", "h", "n", " ", "S", "m", "i", "t", "h", "\n", "j", "o", "h", "n", "@", "x", ".", "i", "o", "\n", "5", "5", "5", "-", "1", "2", "3", "-", "4", "5", "6", "7", "\n", "5", " ", "y", "e", "a", "r", "s", " ", "o", "f", " ", "e", "x", "p", "e", "r", "i", "e", "n", "c", "e", ".", " ", "P", "y", "t", "h", "o", "n", ",", " ", "S", "Q", "L", ".", " ", "B", "a", "c", "h", "e", "l", "o", "r", " ", "d", "e", "g", "r", "e", "e", ".">>
ResumeOfAnn == <<"A", "n", "n", " ", "L", "e", "e", " ", "-", " ", "R", "e", "s", "u", "m", "e", "\n", "1", "2", " ", "y", "e", "a", "r", "s", " ", "o", "f", " ", "e", "x", "p", "e", "r", "i", "e", "n", "c", "e", " ", "i", "n", " ", "j", "a", "v", "a">>
ResumeOfBob == <<"W", "o", "r", "k", " ", "E", "x", "p", "e", "r", "i", "e", "n", "c", "e", "\n", "A", "c", "m", "e", " ", "2", "0", "1", "9", " ", "-", " ", "p", "r", "e", "s", "e", "n", "t", "\n", "P", "h", "D", ".", " ", "M", "B", "A", " ", "a", "t", " ", "M", "I", "T", " ", "c", "o", "l", "l", "e", "g", "e">>
ResumeOfCy == <<"S", "e", "n", "i", "o", "r", " ", "e", "n", "g", "i", "n", "e", "e", "r", ",", " ", "9", "8", "7", "6", "5", "4", "3", "2", "1", "0">>
Blank == <<" ", "\n">>

ResumeTexts == {ResumeOfJohn, ResumeOfAnn, ResumeOfBob, ResumeOfCy, Blank}

CvPath == <<"d", "a", "t", "a", "/", "r", "e", "s", "u", "m", "e", "s", "/", "c", "v", ".", "p", "d", "f">>

\* What the file at CvPath can be: a PDF with text, one PyMuPDF fails on, one
\* neither library reads, one without text, one with white space only.
CvDocuments ==
    { [path |-> CvPath, fitz |-> Some(ResumeOfJohn), pdfplumber |-> Some(ResumeOfJohn)],
      [path |-> CvPath, fitz |-> None, pdfplumber |-> Some(ResumeOfAnn)],
      [path |-> CvPath, fitz |-> None, pdfplumber |-> None],
      [path |-> CvPath, fitz |-> Some(<<>>), pdfplumber |-> Some(<<>>)],
      [path |-> CvPath, fitz |-> Some(Blank), pdfplumber |-> Some(Blank)] }

\* The file systems: no file at CvPath, or one of the documents.
FileSystems == {{}} \cup { {document} : document \in CvDocuments }

FilePaths == {None, Some(<<>>), Some(CvPath)}
TextArguments == {None, Some(<<>>)} \cup { Some(text) : text \in ResumeTexts }

\* datetime.now().year
Years == {2025, 2026}

\* resume_data dicts: with a file_path (as the Resume Collection page makes
\* them), with a text, with both, with neither.
ResumeData ==
    { [name |-> <<"c", "v", ".", "p", "d", "f">>] }
        \cup { [file_path |-> file_path, name |-> <<"c", "v", ".", "p", "d", "f">>] : file_path \in FilePaths }
        \cup { [text |-> text] : text \in TextArguments }
        \cup { [file_path |-> Some(CvPath), text |-> Some(ResumeOfCy), name |-> <<"C", "y">>] }

----------------------------------------------------------------------------
(* The state machine of the resume tools: a caller makes one call of       *)
(* parse_resume or process_resume at a time.                               *)

ParseResume ==
    /\ result = NoResult
    /\ \E file_path \in FilePaths, text \in TextArguments, documents \in FileSystems,
          this_year \in Years :
          \E returned \in parse_resume(file_path, text, documents, this_year) :
              result' = [op |-> "parse_resume", file_path |-> file_path, text |-> text,
                         documents |-> documents, this_year |-> this_year,
                         returned |-> returned]
    /\ UNCHANGED candidates
    /\ UNCHANGED storeVars

ProcessResume ==
    /\ result = NoResult
    /\ \E resume_data \in ResumeData, documents \in FileSystems, this_year \in Years :
          \E returned \in process_resume(resume_data, documents, this_year, "c1") :
              result' = [op |-> "process_resume", resume_data |-> resume_data,
                         documents |-> documents, this_year |-> this_year,
                         returned |-> returned]
    /\ UNCHANGED candidates
    /\ UNCHANGED storeVars

ResumeInit ==
    /\ candidates = <<>>
    /\ result = NoResult
    /\ StoreUntouched

ResumeNext ==
    \/ ParseResume
    \/ ProcessResume
    \/ Rerun

ResumeSpec == ResumeInit /\ [][ResumeNext]_vars

----------------------------------------------------------------------------
(* Properties of the resume tools.                                         *)

\* The text of a document, as the PDF libraries extract it.
Extracted(document) ==
    IF ~document.fitz.none THEN document.fitz.val
    ELSE IF ~document.pdfplumber.none THEN document.pdfplumber.val
    ELSE <<>>

\* No text can be obtained for a call: the document at file_path yields no
\* text (none at all, or white space only), or there is no such document
\* and the text handed in is missing or empty.
NoObtainableText(file_path, text, documents) ==
    IF ~file_path.none /\ file_path.val # <<>> /\ Exists(documents, file_path.val)
    THEN \A i \in DOMAIN Extracted(DocumentAt(documents, file_path.val)) :
             Extracted(DocumentAt(documents, file_path.val))[i] \in WhiteChars
    ELSE text.none \/ text.val = <<>>

\* The keys of the record parse_resume makes from a text.
ExtractedFields == {"name", "email", "phone", "skills", "experience", "education", "raw_text"}

\* C18: parse_resume with no obtainable text returns the error dict
\* {"error": "No text content found"} and nothing else: none of the
\* extracted fields is in it.
C18_NoTextNoRecord ==
    (/\ result.op = "parse_resume"
     /\ NoObtainableText(result.file_path, result.text, result.documents))
        => /\ "error" \in DOMAIN result.returned
           /\ result.returned.error = "No text content found"
           /\ DOMAIN result.returned \cap ExtractedFields = {}

\* parse_resume called for a document that exists and holds white space only,
\* with a text handed in as well: the error dict is returned.
C18_Witness ==
    /\ result.op = "parse_resume"
    /\ result.file_path = Some(CvPath)
    /\ result.text = Some(ResumeOfCy)
    /\ \E document \in result.documents : document.fitz = Some(Blank)
    /\ result.returned = NoTextContent

\* parse_resume with a text returns the record of the extracted fields.
C18_TextGivesRecord ==
    (/\ result.op = "parse_resume"
     /\ ~NoObtainableText(result.file_path, result.text, result.documents))
        => DOMAIN result.returned = ExtractedFields

\* The resume_data of a call holds no text to obtain.
NoTextAvailable(resume_data, documents) ==
    NoObtainableText(Get(resume_data, "file_path", None),
                     IF "file_path" \in DOMAIN resume_data THEN None
                     ELSE Get(resume_data, "text", None),
                     documents)

\* C19: when no text is available for a resume, process_resume returns an
\* error and no candidate; it does not return success.
C19_NoTextNoCandidate ==
    (/\ result.op = "process_resume"
     /\ NoTextAvailable(result.resume_data, result.documents))
        => /\ "error" \in DOMAIN result.returned
           /\ "candidate" \notin DOMAIN result.returned
           /\ "success" \notin DOMAIN result.returned

\* What holds instead: process_resume returns an error only for a resume_data
\* with neither file_path nor text; every other call returns success with a
\* candidate.
C19_SuccessWheneverParsed ==
    result.op = "process_resume" =>
        IF DOMAIN result.resume_data \cap {"file_path", "text"} = {}
        THEN result.returned = NoResumeContent
        ELSE /\ result.returned.success
             /\ result.returned.candidate.status = "new"

\* process_resume for a file that does not exist: success, with a candidate
\* of defaults and the error dict as parsed_data.
C19_CandidateOfDefaults ==
    /\ result.op = "process_resume"
    /\ result.resume_data = [file_path |-> Some(CvPath), name |-> <<"c", "v", ".", "p", "d", "f">>]
    /\ result.documents = {}
    /\ result.returned.success
    /\ result.returned.parsed_data = NoTextContent
    /\ result.returned.candidate.email = Some(<<>>)
    /\ result.returned.candidate.skills = Some(<<>>)
    /\ result.returned.candidate.experience = None

----------------------------------------------------------------------------
(* Purity of the scoring engine.                                           *)

\* The call recorded in call, made again on the list given.
Again(call, list) ==
    CASE call.op = "analyze_candidate" -> analyze_candidate(call.candidate, call.job)
      [] call.op = "rank_candidates" -> rank_candidates(list, call.job)
      [] call.op = "filter_candidates" ->
             filter_candidates(list, call.job, call.filter_criteria)

----------------------------------------------------------------------------
(* A candidate without education under an education criterion.             *)

\* A candidate of the list holds None under education.
SomeEducationUnset == \E i \in DOMAIN candidates : candidates[i].education.none

\* C21: with education_level other than 'Any', filter_candidates (on
\* candidates as Candidate.to_dict() gives them) leaves out a candidate whose
\* education is None as failing the education criterion, and still returns
\* the other passing candidates with success = true.
C21_UnsetEducationExcluded ==
    (/\ result.op = "filter_candidates"
     /\ SkillsAreLists
     /\ Criterion.education_level # AnyLevel
     /\ SomeEducationUnset)
        => /\ result.returned.success
           /\ \A k \in DOMAIN Filtered : ~Filtered[k].education.none
           /\ Filtered = PassingRanked(candidates, result.job, Criterion)

\* What the code does instead: when a candidate with education None gets to
\* the education check, the whole call reports success = false and returns
\* no candidate, also when another candidate meets all four criteria.
C21_UnsetEducationAborts ==
    /\ result.op = "filter_candidates"
    /\ SkillsAreLists
    /\ Criterion.education_level # AnyLevel
    /\ SomeEducationUnset
    /\ ~result.returned.success
    /\ Filtered = <<>>
    /\ PassingRanked(candidates, result.job, Criterion) # <<>>

\* The call succeeds exactly when no candidate with education None gets past
\* the experience and skills checks.
C21_SuccessUnlessReached ==
    (/\ result.op = "filter_candidates"
     /\ SkillsAreLists
     /\ Criterion.education_level # AnyLevel)
        => (result.returned.success <=>
               ~\E i \in DOMAIN candidates :
                   /\ candidates[i].education.none
                   /\ ~FailsExperience(candidates[i], Criterion)
                   /\ ~FailsSkills(candidates[i], Criterion))

----------------------------------------------------------------------------
(* The extractors of experience and education on their own: a caller runs  *)
(* extract_experience or extract_education on a text, and the scoring      *)
(* engine reads the years of an extracted experience.                      *)

MaxYears == 12
MaxSentences == 2

\* Texts containing "N years of experience".
ExperienceText(n) ==
    { Str(n) \o <<" ", "y", "e", "a", "r", "s", " ", "o", "f", " ", "e", "x", "p", "e", "r", "i", "e", "n", "c", "e">>,
      <<"O", "v", "e", "r", " ">> \o Str(n) \o <<" ", "y", "e", "a", "r", "s", " ", "o", "f", " ", "e", "x", "p", "e", "r", "i", "e", "n", "c", "e", " ", "i", "n", " ", "j", "a", "v", "a", ".">>,
      <<"A", "n", "n", " ", "L", "e", "e", "\n">> \o Str(n) \o <<" ", "y", "e", "a", "r", "s", " ", "o", "f", " ", "e", "x", "p", "e", "r", "i", "e", "n", "c", "e", ".", " ", "B", "a", "c", "h", "e", "l", "o", "r", " ", "d", "e", "g", "r", "e", "e", ".">> }

ExperienceTexts == UNION { ExperienceText(n) : n \in 1..MaxYears }

\* Sentences of an education section, and the texts made of up to
\* MaxSentences of them, each ended by a full stop.
EducationSentences ==
    { <<"B", "a", "c", "h", "e", "l", "o", "r", " ", "d", "e", "g", "r", "e", "e">>, <<" ", "M", "B", "A", " ", "a", "t", " ", "M", "I", "T", " ", "c", "o", "l", "l", "e", "g", "e">>, <<" ", "P", "y", "t", "h", "o", "n", " ", "a", "n", "d", " ", "S", "Q", "L">>, <<" ", "B", ".", "S">> }

RECURSIVE TextsOf(_)
TextsOf(n) ==
    IF n = 0 THEN {<<>>}
    ELSE { text \o sentence \o <<".">> : text \in TextsOf(n - 1), sentence \in EducationSentences }

EducationTexts == UNION { TextsOf(n) : n \in 1..MaxSentences }

ExtractExperience ==
    /\ result = NoResult
    /\ \E text \in ExperienceTexts \cup ResumeTexts, this_year \in Years :
          result' = [op |-> "extract_experience", text |-> text, this_year |-> this_year,
                     returned |-> extract_experience(text, this_year)]
    /\ UNCHANGED candidates
    /\ UNCHANGED storeVars

\* _calculate_experience_match reads the years of the candidate's experience,
\* the string extract_experience returned.
ExtractYears ==
    /\ result.op = "extract_experience"
    /\ result' = [op |-> "_extract_years", text |-> result.returned, of |-> result.text,
                  returned |-> _extract_years(result.returned)]
    /\ UNCHANGED candidates
    /\ UNCHANGED storeVars

ExtractEducation ==
    /\ result = NoResult
    /\ \E text \in EducationTexts \cup ResumeTexts :
          result' = [op |-> "extract_education", text |-> text,
                     returned |-> extract_education(text)]
    /\ UNCHANGED candidates
    /\ UNCHANGED storeVars

ExtractInit ==
    /\ candidates = <<>>
    /\ result = NoResult
    /\ StoreUntouched

ExtractNext ==
    \/ ExtractExperience
    \/ ExtractYears
    \/ ExtractEducation
    \/ Rerun

ExtractSpec == ExtractInit /\ [][ExtractNext]_vars

----------------------------------------------------------------------------
(* The round trip of the years of experience.                              *)

YearsSuffix == <<" ", "y", "e", "a", "r", "s">>

\* C22: for a text containing "N years of experience", N a positive integer
\* of one or of two digits, extract_experience returns "N years", and
\* _extract_years of that string is N.
C22_ExperienceRoundTrip ==
    \A n \in 1..MaxYears :
        /\ (result.op = "extract_experience" /\ result.text \in ExperienceText(n))
              => result.returned = Some(Str(n) \o YearsSuffix)
        /\ (result.op = "_extract_years" /\ result.of \in ExperienceText(n))
              => result.returned = n

\* The round trip holds for the N of one digit.
C22_OneDigitRoundTrip ==
    \A n \in 1..Min({9, MaxYears}) :
        /\ (result.op = "extract_experience" /\ result.text \in ExperienceText(n))
              => result.returned = Some(Str(n) \o YearsSuffix)
        /\ (result.op = "_extract_years" /\ result.of \in ExperienceText(n))
              => result.returned = n

\* An N of two digits is unpacked into years and months, and the engine
\* reads the first digit as the years.
C22_TwoDigitsUnpacked ==
    \A n \in 10..MaxYears :
        /\ (result.op = "extract_experience" /\ result.text \in ExperienceText(n))
              => result.returned = Some(Str(n \div 10) \o YearsSuffix \o <<" ">>
                                            \o Str(n % 10) \o <<" ", "m", "o", "n", "t", "h", "s">>)
        /\ (result.op = "_extract_years" /\ result.of \in ExperienceText(n))
              => result.returned = n \div 10

C22_TwoDigitsReached ==
    /\ result.op = "_extract_years"
    /\ result.of \in ExperienceText(12)
    /\ result.text = Some(<<"1", " ", "y", "e", "a", "r", "s", " ", "2", " ", "m", "o", "n", "t", "h", "s">>)
    /\ result.returned = 1

----------------------------------------------------------------------------
(* The sentences of the education.                                         *)

\* The sentences of a text that contain an education keyword, stripped.
KeywordSentences(text) ==
    LET sentences == Split(text, ".")
    IN  { Strip(sentences[i]) : i \in { j \in DOMAIN sentences :
            \E k \in DOMAIN parser_edu_keywords :
                Contains(Lower(sentences[j]), parser_edu_keywords[k]) } }

KeywordOccurs(text) ==
    \E k \in DOMAIN parser_edu_keywords : Contains(Lower(text), parser_edu_keywords[k])

\* C23: extract_education returns the sentences that contain at least one
\* education keyword, each once, joined by "; ", and None when no keyword
\* occurs in the text.
C23_EachSentenceOnce ==
    result.op = "extract_education"
        => IF KeywordOccurs(result.text)
           THEN \E list \in Orderings(KeywordSentences(result.text)) :
                    result.returned = Some(Join(list, <<";", " ">>))
           ELSE result.returned = None

\* A sentence holding two keywords is returned twice.
C23_SentenceRepeated ==
    /\ result.op = "extract_education"
    /\ result.text = <<"B", "a", "c", "h", "e", "l", "o", "r", " ", "d", "e", "g", "r", "e", "e", ".">>
    /\ result.returned = Some(<<"B", "a", "c", "h", "e", "l", "o", "r", " ", "d", "e", "g", "r", "e", "e", ";", " ", "B", "a", "c", "h", "e", "l", "o", "r", " ", "d", "e", "g", "r", "e", "e">>)

\* What is returned has one entry for each keyword that some sentence
\* contains, None when there is none.
C23_OneEntryPerKeyword ==
    result.op = "extract_education"
        => LET sentences == Split(result.text, ".")
               held == { k \in DOMAIN parser_edu_keywords : \E j \in DOMAIN sentences :
                            Contains(Lower(sentences[j]), parser_edu_keywords[k]) }
           IN  IF held = {} THEN result.returned = None
               ELSE /\ ~result.returned.none
                    /\ \E list \in [1..Cardinality(held) -> KeywordSentences(result.text)] :
                           result.returned.val = Join(list, <<";", " ">>)

----------------------------------------------------------------------------
(* The Resume Collection page (show_resume_collection, src/app.py).        *)

\* The fields of the dataclass Candidate, and the keywords
\* show_resume_collection calls Candidate(...) with.
CandidateFields ==
    {"id", "name", "email", "phone", "skills", "experience", "education", "resume_path",
     "status", "created_at"}
CandidateKeywords ==
    {"id", "name", "email", "phone", "experience", "education", "skills", "job_id",
     "created_at"}

\* Candidate(**keywords) raises TypeError for a keyword that is no field.
CandidateRaises(keywords) == ~(keywords \subseteq CandidateFields)

\* The names of the files uploaded.
UploadNames == { <<"c", "v", ".", "p", "d", "f">>, <<"a", "n", "n", ".", "p", "d", "f">> }

\* Process Resume pressed with a job selected and a file uploaded: the file
\* is saved at data/resumes/<name> and process_resume is run on it.  For a
\* dict without 'success' result['success'] raises KeyError; for a success
\* Candidate(...) is called with the keyword job_id, raises TypeError, and
\* the run ends in the except clause.  Were Candidate(...) to return, its
\* to_dict() would be stored (of it, the entries the store keeps here).
ProcessResumeUpload ==
    /\ ListOf("jobs_file") # <<>>
    /\ \E selected_job \in { ListOf("jobs_file")[i].title : i \in DOMAIN ListOf("jobs_file") },
          name \in UploadNames, content \in CvDocuments, this_year \in Years :
          LET jobs == ListOf("jobs_file")
              job_data == jobs[Min({ i \in DOMAIN jobs : jobs[i].title = selected_job })]
              uploaded_file == [content EXCEPT !.path = <<"d", "a", "t", "a", "/", "r", "e", "s", "u", "m", "e", "s", "/">> \o name]
              resume_data == [file_path |-> Some(uploaded_file.path),
                              name |-> name, job_data |-> job_data]
              before == Len(ListOf("candidates_file"))
          IN  \E returned \in process_resume(resume_data, {uploaded_file}, this_year, "c1") :
                  IF "success" \notin DOMAIN returned
                  THEN /\ page' = [op |-> "process_resume", uploaded_file |-> uploaded_file,
                                   job_data |-> job_data, this_year |-> this_year,
                                   result |-> returned,
                                   processed |-> FALSE, raised |-> TRUE,
                                   candidates_before |-> before]
                       /\ UNCHANGED files
                  ELSE IF CandidateRaises(CandidateKeywords)
                  THEN /\ page' = [op |-> "process_resume", uploaded_file |-> uploaded_file,
                                   job_data |-> job_data, this_year |-> this_year,
                                   result |-> returned,
                                   processed |-> returned.success, raised |-> TRUE,
                                   candidates_before |-> before]
                       /\ UNCHANGED files
                  ELSE LET candidate_info == returned.candidate
                           candidate == [id |-> "c2", name |-> candidate_info.name,
                                         email |-> candidate_info.email,
                                         phone |-> candidate_info.phone, status |-> "new"]
                           appended == append_to_json_list(candidate, files.candidates_file,
                                                           "candidates", TRUE, "written")
                       IN  /\ files' = [files EXCEPT !.candidates_file = appended.file]
                           /\ page' = [op |-> "process_resume", uploaded_file |-> uploaded_file,
                                       job_data |-> job_data, this_year |-> this_year,
                                       result |-> returned,
                                       processed |-> returned.success, raised |-> FALSE,
                                       candidates_before |-> before]
    /\ UNCHANGED <<candidates, result, procs, stored>>

CollectNext ==
    \/ CreateJob
    \/ ProcessResumeUpload

\* The application with the job form and the Resume Collection page.
CollectSpec == AppInit /\ [][CollectNext]_vars

\* C24: on the Resume Collection page, whenever process_resume succeeds a
\* candidate record built from the extracted fields is appended to the
\* store: the number of stored candidates grows by one.
C24_ProcessedResumeStored ==
    (page.op = "process_resume" /\ page.processed)
        => /\ Len(ListOf("candidates_file")) = page.candidates_before + 1
           /\ ListOf("candidates_file")[Len(ListOf("candidates_file"))].name
                  = page.result.candidate.name

\* A resume is processed with success, and nothing is stored.
C24_ProcessedNotStored ==
    /\ page.op = "process_resume"
    /\ page.processed
    /\ ~page.result.candidate.experience.none
    /\ page.raised
    /\ ListOf("candidates_file") = <<>>

\* Process Resume always ends in the except clause, and the page stores no
\* candidate.
C24_PageStoresNothing ==
    /\ ListOf("candidates_file") = <<>>
    /\ page.op = "process_resume" => page.raised

----------------------------------------------------------------------------
(* A job whose experience_level is a label of the job form.                *)

\* The levels the Create Job form offers.
ExperienceLabels == { <<"E", "n", "t", "r", "y">>, <<"M", "i", "d">>, Senior, <<"E", "x", "e", "c", "u", "t", "i", "v", "e">> }

\* C25: for a job whose experience_level is not empty and states no year
\* count (the labels Entry, Mid, Senior, Executive), the required years are
\* 0 and the experience score is 100 for every candidate, a candidate with
\* no extractable experience included.
C25_LabelLevelFullScore ==
    \A s \in Scored :
        /\ (result.job.experience_level # <<>> /\ ~StatesYears(result.job.experience_level))
              => /\ _extract_years(Some(result.job.experience_level)) = 0
                 /\ s.analysis.experience_match_score = FromInt(100)
        /\ \A label \in ExperienceLabels :
              /\ _extract_years(Some(label)) = 0
              /\ _calculate_experience_match(s.candidate.experience, label) = FromInt(100)

\* A candidate without experience scored 100 for a Senior job.
C25_Witness ==
    \E s \in Scored :
        /\ result.job.experience_level = Senior
        /\ s.candidate.experience.none
        /\ s.analysis.experience_match_score = FromInt(100)

----------------------------------------------------------------------------
(* What update_candidate and update_candidate_status change.               *)

\* The id a call of update_candidate or update_candidate_status looks for.
UpdatedId(p) ==
    IF procs[p].op = "update_candidate" THEN procs[p].arg.id ELSE procs[p].arg.candidate_id

\* Process p has made a call of update_candidate or update_candidate_status.
Updated(p) ==
    /\ procs[p].pc = "done"
    /\ procs[p].op \in {"update_candidate", "update_candidate_status"}

\* Between the file the call of p loaded and the file now: the length and
\* the order are kept, no record but the first with the id differs, and
\* without a record with the id the list is the same and the call reports
\* success.
TouchesFirstMatchOnly(p) ==
    LET before == RecordsIn(procs[p].before)
        after == RecordsIn(files.candidates_file)
        first == FirstWithId(before, UpdatedId(p))
    IN  /\ Len(after) = Len(before)
        /\ \A k \in DOMAIN before : k # first => after[k] = before[k]
        /\ first = 0 => (after = before /\ procs[p].ret.success)

\* C26: update_candidate and update_candidate_status change at most the
\* first stored record whose id matches and leave every other record, the
\* length and the order of the list unchanged; when no record matches, the
\* list is unchanged and the call still returns success=true.
C26_UpdateTouchesFirstMatch ==
    \A p \in DOMAIN procs : Updated(p) => TouchesFirstMatchOnly(p)

\* The same for the calls in which neither the read nor the write raised.
C26_HoldsWhenNothingRaises ==
    \A p \in DOMAIN procs :
        (Updated(p) /\ ~procs[p].read_raised /\ ~procs[p].write_raised)
            => TouchesFirstMatchOnly(p)

\* Two records with the id were stored and an update changed the first only.
C26_FirstOfTwoReached ==
    \E p \in DOMAIN procs :
        /\ Updated(p)
        /\ ~procs[p].read_raised /\ ~procs[p].write_raised
        /\ Len(RecordsIn(procs[p].before)) = 2
        /\ \A k \in {1, 2} : RecordsIn(procs[p].before)[k].id = UpdatedId(p)
        /\ RecordsIn(files.candidates_file)[1] # RecordsIn(procs[p].before)[1]
        /\ RecordsIn(files.candidates_file)[2] = RecordsIn(procs[p].before)[2]

\* An update for an id that is not stored, its read raising: the call reports
\* success and the stored records are gone.
C26_ListEmptiedReached ==
    \E p \in DOMAIN procs :
        /\ Updated(p)
        /\ procs[p].read_raised
        /\ procs[p].ret.success
        /\ FirstWithId(RecordsIn(procs[p].before), UpdatedId(p)) = 0
        /\ RecordsIn(procs[p].before) # <<>>
        /\ RecordsIn(files.candidates_file) = <<>>

----------------------------------------------------------------------------
(* Scheduler (src/src/tools/scheduler.py) and TimeBot.schedule_interview   *)
(* (src/src/agents/time_bot.py).  A datetime is a minute of January 2026,  *)
(* [day, hour, minute]; seconds and microseconds, which every slot has at  *)
(* zero, are left out.                                                     *)

MaxInterviews == 2

business_hours == <<9, 17>>
working_days == {0, 1, 2, 3, 4}

\* datetime.weekday(), Monday being 0: 1 January 2026 is a Thursday.
weekday(date) == (date.day + 2) % 7

\* a < b for two datetimes
Earlier(a, b) ==
    (a.day * 24 + a.hour) * 60 + a.minute < (b.day * 24 + b.hour) * 60 + b.minute

TwoDigits(n) == IF n < 10 THEN <<"0">> \o Str(n) ELSE Str(n)

\* datetime.isoformat()
isoformat(date) ==
    <<"2", "0", "2", "6", "-", "0", "1", "-">> \o TwoDigits(date.day) \o <<"T">> \o TwoDigits(date.hour) \o <<":">>
        \o TwoDigits(date.minute) \o <<":", "0", "0">>

\* datetime.fromisoformat(string) for a minute of January 2026, None where it
\* raises ValueError.
fromisoformat(string) ==
    IF /\ Len(string) = Len(isoformat([day |-> 1, hour |-> 0, minute |-> 0]))
       /\ \A i \in {9, 10, 12, 13, 15, 16} : IsDigit(string[i])
       /\ LET date == [day |-> ParseInt(SubSeq(string, 9, 10)),
                       hour |-> ParseInt(SubSeq(string, 12, 13)),
                       minute |-> ParseInt(SubSeq(string, 15, 16))]
          IN  /\ date.day \in 1..31 /\ date.hour \in 0..23 /\ date.minute \in 0..59
              /\ string = isoformat(date)
    THEN Some([day |-> ParseInt(SubSeq(string, 9, 10)),
               hour |-> ParseInt(SubSeq(string, 12, 13)),
               minute |-> ParseInt(SubSeq(string, 15, 16))])
    ELSE None

\* The slots of one day: the hours of business on a working day.
SlotsOfDay(current_date) ==
    IF weekday(current_date) \in working_days
    THEN [ n \in 1..(business_hours[2] - business_hours[1]) |->
             [current_date EXCEPT !.hour = business_hours[1] + n - 1, !.minute = 0] ]
    ELSE <<>>

RECURSIVE GenerateTimeSlotsFromStart(_, _)
\* Slots that do not begin before start_date.
GenerateTimeSlotsFromStart(start_date, days) ==
    IF days = 0 THEN <<>>
    ELSE SelectSeq(SlotsOfDay(start_date), LAMBDA slot : ~Earlier(slot, start_date))
            \o GenerateTimeSlotsFromStart([day |-> start_date.day + 1, hour |-> 0, minute |-> 0],
                                          days - 1)

RECURSIVE generate_time_slots(_, _)
generate_time_slots(start_date, days) ==
    IF days = 0 THEN <<>>
    ELSE SlotsOfDay(start_date)
            \o generate_time_slots([start_date EXCEPT !.day = @ + 1], days - 1)

\* find_available_slots at the time now: the first ten slots of the 7 days
\* from preferred_time (or now) that no existing interview is scheduled at.
find_available_slots(existing_interviews, preferred_time, now) ==
    LET start_date == IF preferred_time.none THEN now ELSE preferred_time.val
        all_slots == generate_time_slots(start_date, 7)
        booked_times == { fromisoformat(existing_interviews[i].scheduled_time).val :
                            i \in { j \in DOMAIN existing_interviews :
                                      "scheduled_time" \in DOMAIN existing_interviews[j] } }
        available_slots == SelectSeq(all_slots, LAMBDA slot : slot \notin booked_times)
    IN  SubSeq(available_slots, 1, Min({10, Len(available_slots)}))

NoSlots == [error |-> "No available slots found"]

\* The dicts the calls made so far returned.
Returned == [ i \in DOMAIN result.calls |-> result.calls[i].returned ]

\* A schedule_interview that looks for a slot free of the interviews
\* returned so far.
ScheduleInterviewConsulting(candidate_id, job_id, preferred_time, now) ==
    LET available_slots == find_available_slots(Returned, preferred_time, now)
    IN  IF available_slots = <<>> THEN NoSlots
        ELSE [candidate_id |-> candidate_id, job_id |-> job_id,
              scheduled_time |-> isoformat(available_slots[1]), status |-> "scheduled"]

\* Scheduler.schedule_interview at the time now.
schedule_interview(candidate_id, job_id, preferred_time, now) ==
    LET available_slots == find_available_slots(<<>>, preferred_time, now)
    IN  IF available_slots = <<>> THEN NoSlots
        ELSE [candidate_id |-> candidate_id, job_id |-> job_id,
              scheduled_time |-> isoformat(available_slots[1]), status |-> "scheduled"]

\* TimeBot.schedule_interview, preferred_time being None or a string and
\* _generate_interview_id() giving interview_id (created_at is left out).
TimeBot_schedule_interview(candidate_id, job_id, preferred_time, now, interview_id) ==
    LET pref_datetime == IF Truthy(preferred_time) THEN fromisoformat(preferred_time.val)
                         ELSE None
        interview_data == schedule_interview(candidate_id, job_id, pref_datetime, now)
    IN  IF "error" \in DOMAIN interview_data THEN interview_data
        ELSE [id |-> interview_id, type |-> "initial_interview", duration |-> 60,
              location |-> "Virtual Meeting"] @@ interview_data

\* Preferred times: Wednesday 7 at 14:30, Monday 5 at 09:00, Saturday 10,
\* Friday 9 after hours, Thursday 8 at 08:59.
PreferredTimes ==
    { [day |-> 7, hour |-> 14, minute |-> 30], [day |-> 5, hour |-> 9, minute |-> 0],
      [day |-> 10, hour |-> 10, minute |-> 0], [day |-> 9, hour |-> 18, minute |-> 0],
      [day |-> 8, hour |-> 8, minute |-> 59] }

\* datetime.now(): Tuesday 6 at 08:15 and Sunday 11 at noon.
Clock == { [day |-> 6, hour |-> 8, minute |-> 15], [day |-> 11, hour |-> 12, minute |-> 0] }

\* The strings TimeBot is given as preferred time.
PreferredStrings ==
    { isoformat([day |-> 7, hour |-> 14, minute |-> 30]),
      isoformat([day |-> 10, hour |-> 10, minute |-> 0]), <<"t", "o", "m", "o", "r", "r", "o", "w">>, <<>> }

ScheduledCandidates == {"c1", "c2"}

NoCalls == [op |-> "schedule_interview", calls |-> <<>>]

\* A call of Scheduler.schedule_interview.
SchedulerCall ==
    /\ result.op = "schedule_interview"
    /\ Len(result.calls) < MaxInterviews
    /\ \E candidate_id \in ScheduledCandidates,
          preferred_time \in {None} \cup { Some(date) : date \in PreferredTimes },
          now \in Clock :
          result' = [result EXCEPT !.calls = Append(@,
                        [by |-> "Scheduler", preferred_time |-> preferred_time, now |-> now,
                         start_date |-> IF preferred_time.none THEN now ELSE preferred_time.val,
                         returned |-> schedule_interview(candidate_id, "j1", preferred_time, now)])]
    /\ UNCHANGED candidates
    /\ UNCHANGED storeVars

\* A call of TimeBot.schedule_interview.
TimeBotCall ==
    /\ result.op = "schedule_interview"
    /\ Len(result.calls) < MaxInterviews
    /\ \E candidate_id \in ScheduledCandidates,
          preferred_time \in {None} \cup { Some(string) : string \in PreferredStrings },
          now \in Clock :
          result' = [result EXCEPT !.calls = Append(@,
                        [by |-> "TimeBot", preferred_time |-> preferred_time, now |-> now,
                         start_date |-> IF Truthy(preferred_time) /\ ~fromisoformat(preferred_time.val).none
                                        THEN fromisoformat(preferred_time.val).val ELSE now,
                         returned |-> TimeBot_schedule_interview(candidate_id, "j1",
                                          preferred_time, now, <<"INT", Len(result.calls) + 1>>)])]
    /\ UNCHANGED candidates
    /\ UNCHANGED storeVars

ScheduleInit ==
    /\ candidates = <<>>
    /\ result = NoCalls
    /\ StoreUntouched

ScheduleNext ==
    \/ SchedulerCall
    \/ TimeBotCall

ScheduleSpec == ScheduleInit /\ [][ScheduleNext]_vars

----------------------------------------------------------------------------
(* Properties of the slot chosen.                                          *)

\* The call was given a preferred time that is a datetime.
HasPreferred(call) ==
    IF call.by = "Scheduler" THEN ~call.preferred_time.none
    ELSE Truthy(call.preferred_time) /\ ~fromisoformat(call.preferred_time.val).none

\* C27: schedule_interview chooses its slot without consulting the
\* interviews scheduled before: two calls with the same preferred time
\* return the same scheduled_time, so two scheduled interviews can share a
\* slot.
C27_SamePreferredSameSlot ==
    \A i, j \in DOMAIN result.calls :
        ( /\ HasPreferred(result.calls[i]) /\ HasPreferred(result.calls[j])
          /\ result.calls[i].start_date = result.calls[j].start_date )
            => /\ result.calls[i].returned.status = "scheduled"
               /\ result.calls[j].returned.status = "scheduled"
               /\ result.calls[i].returned.scheduled_time
                      = result.calls[j].returned.scheduled_time

\* Two candidates scheduled at the same time.
C27_Witness ==
    /\ Len(result.calls) = 2
    /\ HasPreferred(result.calls[1]) /\ HasPreferred(result.calls[2])
    /\ result.calls[1].start_date = result.calls[2].start_date
    /\ result.calls[1].returned.candidate_id # result.calls[2].returned.candidate_id
    /\ result.calls[1].returned.status = "scheduled"
    /\ result.calls[2].returned.status = "scheduled"
    /\ result.calls[1].returned.scheduled_time = result.calls[2].returned.scheduled_time

\* The first working day among the 7 days from date.
FirstWorkingDay(date) ==
    Min({ day \in date.day..(date.day + 6) : weekday([day |-> day]) \in working_days })

\* C28: schedule_interview returns the first slot generated, 09:00 on the
\* first working day (Monday to Friday) among the 7 days from the preferred
\* (or the current) date; so for a preferred time on a working day after
\* 09:00 the scheduled_time returned is earlier than the preferred time.
C28_FirstSlotOfFirstWorkingDay ==
    \A i \in DOMAIN result.calls :
        LET call == result.calls[i]
        IN  /\ call.returned.status = "scheduled"
            /\ call.returned.scheduled_time
                  = isoformat([day |-> FirstWorkingDay(call.start_date), hour |-> 9, minute |-> 0])
            /\ ( /\ HasPreferred(call)
                 /\ weekday(call.start_date) \in working_days
                 /\ Earlier([call.start_date EXCEPT !.hour = 9, !.minute = 0], call.start_date) )
                  => Earlier(fromisoformat(call.returned.scheduled_time).val, call.start_date)

\* Preferred Wednesday 7 at 14:30, scheduled Wednesday 7 at 09:00.
C28_Witness ==
    \E i \in DOMAIN result.calls :
        /\ HasPreferred(result.calls[i])
        /\ result.calls[i].start_date = [day |-> 7, hour |-> 14, minute |-> 30]
        /\ result.calls[i].returned.scheduled_time = <<"2", "0", "2", "6", "-", "0", "1", "-", "0", "7", "T", "0", "9", ":", "0", "0", ":", "0", "0">>

----------------------------------------------------------------------------
(* The HR Interface page (show_hr_interface, src/app.py) and HRBridge      *)
(* (src/src/agents/hr_bridge.py), over a store that holds candidates and   *)
(* interviews.  Each candidate is stored under an id of its own            *)
(* (generate_id() is a uuid4).                                             *)

\* The same resume collected a second time: another id, the same label.
AnnAgain == [Ann EXCEPT !.id = "c4"]

HRCandidates == {Ann, Bob, AnnAgain}

\* The decisions of the review form and of the final decision form.
ReviewDecisions == {"pending", "approved", "rejected", "interview_required"}
FinalDecisions == {"hire", "reject", "hold"}

\* HRBridge.review_candidate: the dict returned, without its insights.
review_candidate(candidate_id, review_data) ==
    [success |-> TRUE, candidate_id |-> candidate_id, review_data |-> review_data]

\* HRBridge.make_final_decision: the dict returned, without its insights.
make_final_decision(candidate_id, decision_data) ==
    [success |-> TRUE, candidate_id |-> candidate_id, decision_data |-> decision_data,
     status |-> decision_data.decision]

\* StoreKeeper.update_candidate, load to save: the file afterwards and the
\* value of save_json.
update_candidate(candidate_data, file, read_ok, outcome) ==
    save_json(ReplaceCandidate(load_json(file, "candidates", read_ok), candidate_data),
              file, "candidates", outcome)

\* The first of the dicts with the label selected.
FirstLabelled(list, label) == list[Min({ i \in DOMAIN list : Label(list[i]) = label })]

\* The calls of review_candidate made so far for each candidate id.
NoReviews == [op |-> "review_candidate", reviews |-> [id \in {"c1", "c2", "c4"} |-> 0]]

\* store_candidate of a candidate collected: its id is not in the store yet.
StoreFreshCandidate ==
    /\ \E candidate_data \in HRCandidates :
          /\ candidate_data.id \notin IdsOf("candidates_file")
          /\ LET appended == append_to_json_list(candidate_data, files.candidates_file,
                                                 "candidates", TRUE, "written")
             IN  /\ files' = [files EXCEPT !.candidates_file = appended.file]
                 /\ page' = [op |-> "store_candidate", candidate_id |-> candidate_data.id]
    /\ UNCHANGED <<candidates, result, procs, stored>>

\* store_interview of the interview of a stored candidate.
StoreInterviewCall ==
    /\ ListOf("interviews_file") = <<>>
    /\ \E candidate_id \in IdsOf("candidates_file") :
          LET interview == [id |-> InterviewIds[Len(ListOf("interviews_file")) + 1],
                            candidate_id |-> candidate_id, job_id |-> "j1",
                            scheduled_time |-> "2026-01-05T09:00:00", status |-> "completed"]
              appended == append_to_json_list(interview, files.interviews_file,
                                              "interviews", TRUE, "written")
          IN  /\ files' = [files EXCEPT !.interviews_file = appended.file]
              /\ page' = [op |-> "store_interview", candidate_id |-> candidate_id]
    /\ UNCHANGED <<candidates, result, procs, stored>>

\* A Candidate Review tab that offers every stored candidate.
ReviewAnyCandidate ==
    /\ LET pending_candidates == ListOf("candidates_file")
       IN  /\ pending_candidates # <<>>
           /\ \E selected_candidate \in { Label(pending_candidates[i]) :
                                            i \in DOMAIN pending_candidates },
                 decision \in ReviewDecisions :
                 LET candidate_data == FirstLabelled(pending_candidates, selected_candidate)
                     reviewed == review_candidate(candidate_data.id, [decision |-> decision])
                     updated == update_candidate([candidate_data EXCEPT !.status = decision],
                                                 files.candidates_file, TRUE, "written")
                 IN  /\ files' = [files EXCEPT !.candidates_file = updated.file]
                     /\ page' = [op |-> "review_candidate", candidate_id |-> candidate_data.id,
                                 status_before |-> candidate_data.status, result |-> reviewed]
                     /\ result' = [result EXCEPT !.reviews[candidate_data.id] = @ + 1]
    /\ UNCHANGED <<candidates, procs, stored>>

\* Candidate Review, Submit Review pressed for the candidate selected among
\* those with status 'new': review_candidate is called and, on its success,
\* the candidate is given the decision as status (and the review, which is
\* left out) and update_candidate is called with it.
ReviewCandidate ==
    /\ LET pending_candidates == SelectSeq(ListOf("candidates_file"),
                                           LAMBDA c : c.status = "new")
       IN  /\ pending_candidates # <<>>
           /\ \E selected_candidate \in { Label(pending_candidates[i]) :
                                            i \in DOMAIN pending_candidates },
                 decision \in ReviewDecisions :
                 LET candidate_data == FirstLabelled(pending_candidates, selected_candidate)
                     reviewed == review_candidate(candidate_data.id, [decision |-> decision])
                     updated == update_candidate([candidate_data EXCEPT !.status = decision],
                                                 files.candidates_file, TRUE, "written")
                 IN  /\ files' = IF reviewed.success
                                 THEN [files EXCEPT !.candidates_file = updated.file]
                                 ELSE files
                     /\ page' = [op |-> "review_candidate", candidate_id |-> candidate_data.id,
                                 status_before |-> candidate_data.status, result |-> reviewed]
                     /\ result' = [result EXCEPT !.reviews[candidate_data.id] = @ + 1]
    /\ UNCHANGED <<candidates, procs, stored>>

\* The candidates of the Final Decision tab: those with an interview.
CandidatesWithInterviews ==
    SelectSeq(ListOf("candidates_file"),
              LAMBDA c : \E i \in DOMAIN ListOf("interviews_file") :
                            ListOf("interviews_file")[i].candidate_id = c.id)

\* The status a final decision would give a candidate.
StatusOfDecision ==
    [hire |-> "hired", reject |-> "rejected", hold |-> "on_hold"]

\* A Final Decision tab that writes the decision into the store.
FinalDecisionStored ==
    /\ CandidatesWithInterviews # <<>>
    /\ \E selected_candidate \in { Label(CandidatesWithInterviews[i]) :
                                     i \in DOMAIN CandidatesWithInterviews },
          final_decision \in FinalDecisions :
          LET candidate_data == FirstLabelled(CandidatesWithInterviews, selected_candidate)
              made == make_final_decision(candidate_data.id, [decision |-> final_decision])
              updated == update_candidate(
                             [candidate_data EXCEPT !.status = StatusOfDecision[final_decision]],
                             files.candidates_file, TRUE, "written")
          IN  /\ files' = [files EXCEPT !.candidates_file = updated.file]
              /\ page' = [op |-> "make_final_decision", candidate_id |-> candidate_data.id,
                          result |-> made]
    /\ UNCHANGED <<candidates, result, procs, stored>>

\* Final Decision, Submit Final Decision pressed for the candidate selected
\* among those with an interview: make_final_decision is called and, on its
\* success, a notification is sent; nothing is written.
FinalDecision ==
    /\ CandidatesWithInterviews # <<>>
    /\ \E selected_candidate \in { Label(CandidatesWithInterviews[i]) :
                                     i \in DOMAIN CandidatesWithInterviews },
          final_decision \in FinalDecisions :
          LET candidate_data == FirstLabelled(CandidatesWithInterviews, selected_candidate)
              made == make_final_decision(candidate_data.id, [decision |-> final_decision])
          IN  page' = [op |-> "make_final_decision", candidate_id |-> candidate_data.id,
                       result |-> made]
    /\ UNCHANGED <<candidates, result, files, procs, stored>>

HRInit ==
    /\ candidates = <<>>
    /\ result = NoReviews
    /\ StoreUntouched

HRNext ==
    \/ StoreFreshCandidate
    \/ StoreInterviewCall
    \/ ReviewCandidate
    \/ FinalDecision

HRSpec == HRInit /\ [][HRNext]_vars

----------------------------------------------------------------------------
(* Properties of the HR flows.                                             *)

\* The status stored for the candidate id, "" when the id is not stored.
StatusIn(file, id) ==
    IF \E i \in DOMAIN RecordsIn(file) : RecordsIn(file)[i].id = id
    THEN RecordsIn(file)[FirstWithId(RecordsIn(file), id)].status
    ELSE ""

C30_FinalDecisionNotStored ==
    /\ [][ page'.op = "make_final_decision" => files' = files ]_vars
    /\ [](\A i \in DOMAIN ListOf("candidates_file") :
             ListOf("candidates_file")[i].status \in {"new"} \cup ReviewDecisions)

\* Hire decided for a reviewed candidate, whose stored status is still that
\* of the review.
C30_Witness ==
    /\ page.op = "make_final_decision"
    /\ page.result.success
    /\ page.result.status = "hire"
    /\ StatusIn(files.candidates_file, page.candidate_id) = "approved"

====
